---------------------------- MODULE Spec2Model ----------------------------
(***************************************************************************)
(* Wire-EDM simulation (package wedm): the orchestrator WireEDMEnv         *)
(* (reset / step) and the module pipeline ignition -> material ->          *)
(* dielectric -> wire -> mechanics acting on the shared EDMState.          *)
(*                                                                         *)
(* Numbers.  The program computes in floating point; the model computes    *)
(* in integers with fixed units:                                           *)
(*   positions um, velocities um per tick, accelerations um per tick^2,    *)
(*   times us (one tick = dt = 1 us), voltages V, currents A,              *)
(*   temperatures cK (1/100 K), heat rates mW, volumes 1e-7 mm^3,          *)
(*   dimensionless ratios (debris density, flow condition) in 1/Q.         *)
(* Python's None is the empty tuple, a present value v is <<v>>.           *)
(***************************************************************************)
EXTENDS Integers, Sequences, FiniteSets, TLC

\* Fixed-point scale of dimensionless ratios (1.0 is Q).
Q == 10 * 100

None == << >>
Some(v) == <<v>>
IsNone(o) == o = << >>
Val(o) == o[1]

Max(a, b) == IF a >= b THEN a ELSE b
Min(a, b) == IF a <= b THEN a ELSE b
Abs(a) == IF a >= 0 THEN a ELSE -a

---------------------------------------------------------------------------
(* Bounds of the model *)

\* step() calls explored after construction
MaxSteps == 7
\* reset() calls explored after construction
MaxResets == 2
\* length of the pseudo-random stream before it repeats
RngPeriod == 5

---------------------------------------------------------------------------
(* EnvironmentConfig (core/env_config.py): the configuration the           *)
(* environment is constructed with.                                        *)

dt == 1
\* control interval [us]; the default 1000 is scaled down to the run length
servo_interval == 2
\* [um]
initial_gap == 20
\* [um] one crater beyond the initial gap
target_cutting_distance == 21
\* [mm]
workpiece_height == 2

---------------------------------------------------------------------------
(* IgnitionModuleParameters (modules/ignition.py)                          *)

\* critical debris density at zero gap, 0.3
base_critical_density == 300
\* 0.02 per um
gap_coefficient == 20
\* 0.95
max_critical_density == 950
\* [um]
hard_short_gap == 2
sigmoid_steepness == 500
\* [us] the defaults 50 and 100 are scaled down to the run length
debris_short_duration == 2
random_short_duration == 3
\* [um]
random_short_min_gap == 2
random_short_max_gap == 50
\* maximum probability per microsecond, as the rational 1/2 (the default 0
\* switches random shorts off)
random_short_max_probability == <<1, 2>>
\* ignition probability coefficients a, b, c in 1/100
ignition_a_coeff == 48
ignition_b_coeff == -369
ignition_c_coeff == 1405
\* [V]
default_target_voltage == 80
\* [us] the defaults 3 and 80 are scaled down to the run length
default_on_time == 2
default_off_time == 1
\* mode names are <<"I", n>>, the string "I<n>"
ModeName(n) == <<"I", n>>
default_current_mode == ModeName(5)
\* 0.3
spark_voltage_factor == 300

\* currents.json: mode name -> {"Current": amperes}; I1..I19, I5 being the
\* 60 A the module's cache starts with.
CurrentModes == {ModeName(n) : n \in 1..19}
currents_data(mode) == 12 * mode[2]

---------------------------------------------------------------------------
(* The pseudo-random source env.np_random.  The generator is a             *)
(* deterministic state machine: its state is the stream of draws it will   *)
(* produce, a draw returns the head and rotates the stream.  A draw is     *)
(* one of two levels of [0, 1): 0 is the value 0.0 and 1 stands for a      *)
(* value above every probability below 1 that the program compares with.   *)

Streams == [1..RngPeriod -> {0, 1}]
Draw(rng) == rng[1]
Advance(rng) == [i \in 1..RngPeriod |-> rng[(i % RngPeriod) + 1]]

\* np_random.random() < p, p the rational <<num, den>> with den > 0
RandomBelow(u, p) == IF u = 0 THEN p[1] > 0 ELSE p[1] >= p[2]
\* np_random.uniform(0, high) on the integer grid 0 .. high - 1
Uniform(u, high) == IF u = 0 THEN 0 ELSE high - 1


---------------------------------------------------------------------------
(* EDMState (core/state.py): the process state, with its defaults          *)

EDMState ==
    [ time |-> 0,
      time_since_servo |-> 0,
      time_since_open_voltage |-> 0,
      time_since_spark_ignition |-> 0,
      time_since_spark_end |-> 0,
      voltage |-> None,
      current |-> None,
      target_voltage |-> None,
      current_mode |-> None,
      OFF_time |-> None,
      ON_time |-> None,
      workpiece_position |-> 0,
      wire_position |-> 0,
      wire_velocity |-> 0,
      wire_unwinding_velocity |-> 200,
      wire_temperature |-> << >>,
      time_in_critical_temp |-> 0,
      wire_average_temperature |-> None,
      spark_status |-> <<0, None, 0>>,
      dielectric_conductivity |-> 0,
      dielectric_temperature |-> 0,
      debris_concentration |-> 0,
      dielectric_flow_rate |-> 0,
      ionized_channel |-> None,
      debris_volume |-> 0,
      debris_density |-> 0,
      cavity_volume |-> 0,
      flow_rate |-> 0,
      last_crater_volume |-> 0,
      is_short_circuit |-> FALSE,
      is_wire_broken |-> FALSE,
      is_wire_colliding |-> FALSE,
      is_target_distance_reached |-> FALSE,
      target_delta |-> 0,
      target_position |-> 500 ]

---------------------------------------------------------------------------
(* IgnitionModule (modules/ignition.py).  Every operator takes the world   *)
(* w = [state, ignition, dielectric, wire, mechanics, np_random] and       *)
(* returns the world after the call.  A function of the program is a       *)
(* chain of operators, each passing the values computed so far on to the   *)
(* next.                                                                   *)

\* IgnitionModule.__init__: the module's private state; lambda_cache is the
\* dict gap -> lambda
IgnitionInit ==
    [ lambda_cache |-> << >>,
      random_short_remaining |-> 0,
      debris_short_remaining |-> 0,
      cached_current_mode |-> None,
      cached_current_value |-> 60 ]

\* _get_current_from_mode, cache miss: the mode looked up in the table
ResolveMode(current_mode) ==
    IF IsNone(current_mode) THEN default_current_mode
    ELSE IF Val(current_mode) \notin CurrentModes THEN default_current_mode
    ELSE Val(current_mode)

\* _get_current_from_mode, cache miss: the cache after the lookup of mode m
CacheCurrent(ig, m) ==
    [ig EXCEPT !.cached_current_value = currents_data(m),
               !.cached_current_mode = Some(m)]

\* a lookup that keeps the first current it cached
GetCurrentFromModeStale(ig, current_mode) ==
    IF IsNone(ig.cached_current_mode)
    THEN CacheCurrent(ig, ResolveMode(current_mode))
    ELSE ig

\* _get_current_from_mode: the module after the call; the value returned is
\* its cached_current_value
GetCurrentFromMode(ig, current_mode) ==
    IF current_mode # ig.cached_current_mode
    THEN CacheCurrent(ig, ResolveMode(current_mode))
    ELSE ig

\* the sigmoid 1 / (1 + exp(e)) for -500 <= e <= 500, strictly between 0 and
\* 1, at three levels: below, at and above one half
Sigmoid(exponent) ==
    IF exponent > 0 THEN <<1, 3>>
    ELSE IF exponent = 0 THEN <<1, 2>>
    ELSE <<2, 3>>

\* the critical debris density of a gap, in 1/Q
CriticalDensity(gap) ==
    Min(base_critical_density + gap_coefficient * gap, max_critical_density)

\* the sigmoid's exponent -k * (density - critical density), times Q
SigmoidExponent(gap, debris_density) ==
    -sigmoid_steepness * (debris_density - CriticalDensity(gap))

\* the overflow guards of _get_debris_short_probability
GuardedSigmoid(exponent) ==
    IF exponent > 500 * Q THEN <<0, 1>>
    ELSE IF exponent < -500 * Q THEN <<1, 1>>
    ELSE Sigmoid(exponent)

\* a short probability without the hard short of small gaps
GetDebrisShortProbabilitySoft(gap, debris_density) ==
    GuardedSigmoid(SigmoidExponent(gap, debris_density))

\* _get_debris_short_probability: a rational <<num, den>>
GetDebrisShortProbability(gap, debris_density) ==
    IF gap < hard_short_gap THEN <<1, 1>>
    ELSE GuardedSigmoid(SigmoidExponent(gap, debris_density))

\* the random gap-dependent short probability of
\* _update_short_circuit_detection: a rational <<num, den>>
RandomShortProbability(gap) ==
    IF gap >= random_short_max_gap THEN <<0, 1>>
    ELSE IF gap <= random_short_min_gap THEN random_short_max_probability
    ELSE << (random_short_max_gap - gap) * random_short_max_probability[1],
            (random_short_max_gap - random_short_min_gap)
                * random_short_max_probability[2] >>

\* the gap of the probability formulas: max(0, workpiece - wire)
ClampedGap(st) == Max(0, st.workpiece_position - st.wire_position)

\* two rolls of which a debris short also starts the random countdown
RollShortCircuitBoth(w, debris_short_prob, random_short_prob) ==
    IF RandomBelow(Draw(w.np_random), debris_short_prob)
    THEN [w EXCEPT !.ignition.debris_short_remaining = debris_short_duration,
                   !.ignition.random_short_remaining = random_short_duration,
                   !.state.is_short_circuit = TRUE,
                   !.np_random = Advance(@)]
    ELSE IF RandomBelow(Draw(Advance(w.np_random)), random_short_prob)
    THEN [w EXCEPT !.ignition.random_short_remaining = random_short_duration,
                   !.state.is_short_circuit = TRUE,
                   !.np_random = Advance(Advance(@))]
    ELSE [w EXCEPT !.state.is_short_circuit = FALSE,
                   !.np_random = Advance(Advance(@))]

\* _update_short_circuit_detection, no countdown running: the two rolls
RollShortCircuit(w, debris_short_prob, random_short_prob) ==
    IF RandomBelow(Draw(w.np_random), debris_short_prob)
    THEN [w EXCEPT !.ignition.debris_short_remaining = debris_short_duration,
                   !.state.is_short_circuit = TRUE,
                   !.np_random = Advance(@)]
    ELSE IF RandomBelow(Draw(Advance(w.np_random)), random_short_prob)
    THEN [w EXCEPT !.ignition.random_short_remaining = random_short_duration,
                   !.state.is_short_circuit = TRUE,
                   !.np_random = Advance(Advance(@))]
    ELSE [w EXCEPT !.state.is_short_circuit = FALSE,
                   !.np_random = Advance(Advance(@))]

\* a detection that rolls on every tick, running countdown or not
UpdateShortCircuitDetectionUnlatched(w) ==
    RollShortCircuit(
        w,
        GetDebrisShortProbability(ClampedGap(w.state), w.state.debris_density),
        RandomShortProbability(ClampedGap(w.state)))

\* _update_short_circuit_detection
UpdateShortCircuitDetection(w) ==
    IF w.ignition.random_short_remaining > 0
    THEN [w EXCEPT !.ignition.random_short_remaining = @ - 1,
                   !.state.is_short_circuit = TRUE]
    ELSE IF w.ignition.debris_short_remaining > 0
    THEN [w EXCEPT !.ignition.debris_short_remaining = @ - 1,
                   !.state.is_short_circuit = TRUE]
    ELSE RollShortCircuit(
            w,
            GetDebrisShortProbability(ClampedGap(w.state), w.state.debris_density),
            RandomShortProbability(ClampedGap(w.state)))

\* _get_target_voltage, _get_on_time, _get_off_time: "setpoint or default"
\* (None and 0 are both falsy)
OrDefault(o, default) == IF IsNone(o) \/ o = Some(0) THEN default ELSE Val(o)
GetTargetVoltage(st) == OrDefault(st.target_voltage, default_target_voltage)
GetOnTime(st) == OrDefault(st.ON_time, default_on_time)
GetOffTime(st) == OrDefault(st.OFF_time, default_off_time)

\* the voltage during a spark: target voltage * spark_voltage_factor
SparkVoltage(st) == (GetTargetVoltage(st) * spark_voltage_factor) \div Q

\* state.current = the module's cached current value
StoreCurrent(w, ig) ==
    [w EXCEPT !.ignition = ig, !.state.current = Some(ig.cached_current_value)]

\* state.current = self._get_peak_current(state)
SetPeakCurrent(w) ==
    StoreCurrent(w, GetCurrentFromMode(w.ignition, w.state.current_mode))

\* a denominator that leaves out the constant term c
LambdaDenominatorWithoutOffset(gap) ==
    ignition_a_coeff * gap * gap + ignition_b_coeff * gap

\* the denominator a*gap^2 + b*gap + c of lambda, in 1/100
LambdaDenominator(gap) ==
    ignition_a_coeff * gap * gap + ignition_b_coeff * gap + ignition_c_coeff

\* ln(2) / d as a rational <<num, den>>, den > 0 (ln 2 = 0.6931; a zero
\* denominator gives +inf, above every draw)
LambdaOver(d) ==
    IF d > 0 THEN <<6931, 100 * d>>
    ELSE IF d = 0 THEN <<1, 1>>
    ELSE <<-6931, -100 * d>>

\* the formula of get_lambda
LambdaValue(gap) == LambdaOver(LambdaDenominator(gap))

\* get_lambda, cache miss: self.lambda_cache[gap] = ...
LambdaCachePut(cache, gap) ==
    IF \E i \in 1..Len(cache) : cache[i][1] = gap
    THEN cache
    ELSE Append(cache, <<gap, LambdaValue(gap)>>)

\* self.lambda_cache[gap]
LambdaCacheGet(cache, gap) ==
    cache[CHOOSE i \in 1..Len(cache) : cache[i][1] = gap][2]

\* a get_lambda without the short-circuit check
GetLambdaUnchecked(st, ig) ==
    [raised |-> FALSE,
     value |-> Some(LambdaCacheGet(
                   LambdaCachePut(ig.lambda_cache,
                                  st.workpiece_position - st.wire_position),
                   st.workpiece_position - st.wire_position)),
     lambda_cache |-> LambdaCachePut(ig.lambda_cache,
                                     st.workpiece_position - st.wire_position)]

\* get_lambda: [raised, value, lambda_cache]; raises ValueError during a
\* short circuit, else returns lambda of the (unclamped) gap through the cache
GetLambda(st, ig) ==
    IF st.is_short_circuit
    THEN [raised |-> TRUE, value |-> None, lambda_cache |-> ig.lambda_cache]
    ELSE [raised |-> FALSE,
          value |-> Some(LambdaCacheGet(
                        LambdaCachePut(ig.lambda_cache,
                                       st.workpiece_position - st.wire_position),
                        st.workpiece_position - st.wire_position)),
          lambda_cache |-> LambdaCachePut(ig.lambda_cache,
                                          st.workpiece_position - st.wire_position)]

\* _handle_idle_state, no short circuit, after get_lambda returned lam:
\* the ignition roll of _should_ignite and the start of the spark
IgnitionRoll(w, lam) ==
    IF RandomBelow(Draw(w.np_random), Val(lam.value))
    THEN SetPeakCurrent(
            [w EXCEPT !.ignition.lambda_cache = lam.lambda_cache,
                      !.np_random = Advance(Advance(@)),
                      !.state.spark_status =
                          <<1, Some(Uniform(Draw(Advance(w.np_random)),
                                            workpiece_height)), 0>>,
                      !.state.voltage = Some(SparkVoltage(w.state))])
    ELSE [w EXCEPT !.ignition.lambda_cache = lam.lambda_cache,
                   !.np_random = Advance(@)]

\* an idle handler that rolls for ignition whether or not a short circuit is
\* active
HandleIdleStateIgniting(w) ==
    IgnitionRoll([w EXCEPT !.state.current = Some(0),
                           !.state.voltage = Some(GetTargetVoltage(w.state))],
                 [raised |-> FALSE,
                  value |-> Some(LambdaValue(w.state.workpiece_position
                                                - w.state.wire_position)),
                  lambda_cache |-> LambdaCachePut(
                      w.ignition.lambda_cache,
                      w.state.workpiece_position - w.state.wire_position)])

\* _handle_idle_state
HandleIdleState(w) ==
    IF w.state.is_short_circuit
    THEN SetPeakCurrent([w EXCEPT !.state.current = Some(0),
                                  !.state.spark_status = <<-1, None, 0>>])
    ELSE IgnitionRoll([w EXCEPT !.state.current = Some(0),
                                !.state.voltage = Some(GetTargetVoltage(w.state))],
                      GetLambda(w.state, w.ignition))

\* duration = state.spark_status[2] + 1; state.spark_status[2] = duration
CountDuration(w) == [w EXCEPT !.state.spark_status[3] = @ + 1]

\* a spark handler that returns to idle at the end of the ON time, skipping
\* the rest period
SparkStateToIdle(w) ==
    IF w.state.spark_status[3] >= GetOnTime(w.state)
    THEN [w EXCEPT !.state.spark_status = <<0, None, 0>>,
                   !.state.current = Some(0)]
    ELSE SetPeakCurrent(w)

\* _handle_spark_state after the duration was counted
SparkStateAfterCount(w) ==
    IF w.state.spark_status[3] >= GetOnTime(w.state)
    THEN [w EXCEPT !.state.spark_status[1] = -2,
                   !.state.current = Some(0),
                   !.state.voltage =
                       IF ~w.state.is_short_circuit THEN Some(0) ELSE @]
    ELSE SetPeakCurrent(
            [w EXCEPT !.state.voltage =
                IF ~w.state.is_short_circuit THEN Some(SparkVoltage(w.state))
                ELSE @])

\* _handle_spark_state
HandleSparkState(w) == SparkStateAfterCount(CountDuration(w))

\* _handle_short_state after the duration was counted
ShortStateAfterCount(w) ==
    IF w.state.spark_status[3] >= GetOnTime(w.state)
    THEN [w EXCEPT !.state.spark_status[1] = -2,
                   !.state.current = Some(0)]
    ELSE SetPeakCurrent(w)

\* _handle_short_state
HandleShortState(w) == ShortStateAfterCount(CountDuration(w))

\* a rest handler that measures the OFF time alone
RestStateOffTimeOnly(w) ==
    IF w.state.spark_status[3] >= GetOffTime(w.state)
    THEN [w EXCEPT !.state.spark_status = <<0, None, 0>>,
                   !.state.current = Some(0),
                   !.state.voltage =
                       IF ~w.state.is_short_circuit
                       THEN Some(GetTargetVoltage(w.state)) ELSE @]
    ELSE [w EXCEPT !.state.current = Some(0),
                   !.state.voltage =
                       IF ~w.state.is_short_circuit THEN Some(0) ELSE @]

\* _handle_rest_state after the duration was counted
RestStateAfterCount(w) ==
    IF w.state.spark_status[3] >= GetOnTime(w.state) + GetOffTime(w.state)
    THEN [w EXCEPT !.state.spark_status = <<0, None, 0>>,
                   !.state.current = Some(0),
                   !.state.voltage =
                       IF ~w.state.is_short_circuit
                       THEN Some(GetTargetVoltage(w.state)) ELSE @]
    ELSE [w EXCEPT !.state.current = Some(0),
                   !.state.voltage =
                       IF ~w.state.is_short_circuit THEN Some(0) ELSE @]

\* _handle_rest_state
HandleRestState(w) == RestStateAfterCount(CountDuration(w))

\* an ignition update without its step 2
ForceVoltageSkipped(w) == w

\* IgnitionModule.update, step 2: force voltage to 0 if short circuit
ForceVoltage(w) ==
    IF w.state.is_short_circuit THEN [w EXCEPT !.state.voltage = Some(0)] ELSE w

\* IgnitionModule.update, step 3: the state machine
HandleStateMachine(w) ==
    IF w.state.spark_status[1] = 0 THEN HandleIdleState(w)
    ELSE IF w.state.spark_status[1] = 1 THEN HandleSparkState(w)
    ELSE IF w.state.spark_status[1] = -1 THEN HandleShortState(w)
    ELSE IF w.state.spark_status[1] = -2 THEN HandleRestState(w)
    ELSE w

\* IgnitionModule.update
IgnitionUpdate(w) == HandleStateMachine(ForceVoltage(UpdateShortCircuitDetection(w)))

---------------------------------------------------------------------------
(* MaterialRemovalModule (modules/material.py): at the start of a spark    *)
(* (never on a short-circuit pulse) a crater is eroded: its volume is      *)
(* published as last_crater_volume and the workpiece front advances.       *)

\* crater volume of a 60 A discharge, 0.002 mm^3
base_crater_volume == 20000
\* [um] advance of the workpiece front per crater
crater_advance == 1

\* crater volume, growing with the discharge current
CraterVolume(current) == (base_crater_volume * current) \div 60

\* MaterialRemovalModule.update
MaterialUpdate(w) ==
    IF w.state.spark_status[1] = 1 /\ w.state.spark_status[3] = 0
          /\ ~IsNone(w.state.current)
    THEN [w EXCEPT !.state.last_crater_volume = CraterVolume(Val(w.state.current)),
                   !.state.workpiece_position = @ + crater_advance]
    ELSE w

---------------------------------------------------------------------------
(* DielectricModule (modules/dielectric.py)                                *)

\* [um] wire diameter 0.2 mm (EnvironmentConfig)
wire_diameter == 200
\* [mm^3/s]
base_flow_rate == 100
\* 0.01, in 1/Q
debris_removal_efficiency == 10
\* 1.0, in 1/Q
debris_obstruction_coeff == 1000
\* [um]
reference_gap == 25
\* 293.15 K
dielectric_temperature == 29315
\* [us]
ion_channel_duration == 6

\* pi * wire_radius * workpiece_height, in 1e-4 mm^2: the cavity volume of
\* one milli-um of gap in 1e-10 mm^3
cavity_volume_coeff == (3142 * (wire_diameter \div 2) * workpiece_height) \div 100
\* debris_removal_efficiency * base_flow_rate * 1e-6 mm^3, in 1e-7 mm^3
debris_removal_per_us == (debris_removal_efficiency * base_flow_rate * 10) \div Q

\* DielectricModule.__init__: the module's private state
DielectricInit ==
    [ debris_volume |-> 0,
      cavity_volume |-> 0,
      debris_density |-> 0,
      flow_condition |-> 0,
      ion_channel |-> None,
      last_gap_um |-> -1000,
      last_debris_density |-> -1000,
      last_flow_condition |-> 0 ]

\* x * x in 1/Q
SquareQ(x) == (x * x) \div Q

\* numpy's exp(-x), x and the result in 1/Q: the Pade approximant
\* (12 - 6x + x^2) / (12 + 6x + x^2) up to x = 2, squaring beyond
RECURSIVE ExpNeg(_)
ExpNeg(x) ==
    IF x <= 2 * Q
    THEN (Q * ((12 * Q * Q - 6 * Q * x + x * x) \div 100))
            \div ((12 * Q * Q + 6 * Q * x + x * x) \div 100)
    ELSE SquareQ(ExpNeg(x \div 2))

\* fast_exp: exp(-x) for x >= 0, x and the result in 1/Q
fast_exp(x) ==
    IF x < Q \div 2 THEN (Q * (2 * Q - x)) \div (2 * Q + x) ELSE ExpNeg(x)

\* (g / r)^3 in 1/Q
CubeRatio(g, r) == (((((Q * g) \div r) * g) \div r) * g) \div r

\* min(1, (gap / reference_gap)^3) in 1/Q, the gap in milli-um
GapFactor(gap_um) ==
    IF gap_um >= 1000 * reference_gap THEN Q
    ELSE Min(Q, CubeRatio(gap_um \div 10, reference_gap * 100))

\* the debris obstruction factor exp(-k * density) in 1/Q
DebrisFactor(x) == IF x < 2 * Q THEN fast_exp(x) ELSE ExpNeg(x)

\* the gap floored at 0.001 um, in milli-um
DielectricGap(st) == Max(1, 1000 * (st.workpiece_position - st.wire_position))

\* update: the dielectric temperature and self.cavity_volume
UpdateCavityVolume(w) ==
    [w EXCEPT !.state.dielectric_temperature = dielectric_temperature,
              !.dielectric.cavity_volume =
                  (cavity_volume_coeff * DielectricGap(w.state)) \div Q]

\* a dielectric update that adds the crater on every tick of a spark
AddSparkDebrisEveryTick(w) ==
    IF w.state.spark_status[1] = 1 /\ w.state.last_crater_volume > 0
    THEN [w EXCEPT !.dielectric.debris_volume = @ + w.state.last_crater_volume,
                   !.dielectric.ion_channel =
                       Some(<<w.state.spark_status[2], ion_channel_duration>>)]
    ELSE w

\* update: debris and ion channel of a fresh spark
AddSparkDebris(w) ==
    IF w.state.spark_status[1] = 1 /\ w.state.spark_status[3] = 0
          /\ w.state.last_crater_volume > 0
    THEN [w EXCEPT !.dielectric.debris_volume = @ + w.state.last_crater_volume,
                   !.dielectric.ion_channel =
                       Some(<<w.state.spark_status[2], ion_channel_duration>>)]
    ELSE w

\* a debris density without the clamp at 1
UpdateDebrisDensityUnclamped(w) ==
    [w EXCEPT !.dielectric.debris_density =
        IF w.dielectric.cavity_volume > 0
        THEN (Q * w.dielectric.debris_volume) \div w.dielectric.cavity_volume
        ELSE 0]

\* update: self.debris_density
UpdateDebrisDensity(w) ==
    [w EXCEPT !.dielectric.debris_density =
        IF w.dielectric.cavity_volume > 0
        THEN IF w.dielectric.debris_volume >= w.dielectric.cavity_volume THEN Q
             ELSE (Q * w.dielectric.debris_volume) \div w.dielectric.cavity_volume
        ELSE 0]

\* update, cache miss: the flow condition f is stored with its inputs
StoreFlowCondition(w, f) ==
    [w EXCEPT !.dielectric.flow_condition = f,
              !.dielectric.last_gap_um = DielectricGap(w.state),
              !.dielectric.last_debris_density = w.dielectric.debris_density,
              !.dielectric.last_flow_condition = f]

\* update: self.flow_condition, through the cache
UpdateFlowCondition(w) ==
    IF Abs(DielectricGap(w.state) - w.dielectric.last_gap_um) > 10
          \/ Abs(w.dielectric.debris_density - w.dielectric.last_debris_density) > 1
    THEN StoreFlowCondition(
            w,
            (GapFactor(DielectricGap(w.state))
                * DebrisFactor((debris_obstruction_coeff * w.dielectric.debris_density)
                                    \div Q)) \div Q)
    ELSE [w EXCEPT !.dielectric.flow_condition = w.dielectric.last_flow_condition]

\* update: debris removed by the flow
RemoveDebris(w) ==
    IF w.dielectric.flow_condition > 1 /\ w.dielectric.debris_volume > 10000
    THEN [w EXCEPT !.dielectric.debris_volume =
            Max(0, @ - (debris_removal_per_us * w.dielectric.flow_condition) \div Q)]
    ELSE w

\* a countdown that publishes the channel once more with no time left
UpdateIonChannelToZero(w) ==
    IF IsNone(w.dielectric.ion_channel) THEN w
    ELSE IF Val(w.dielectric.ion_channel)[2] > 0
    THEN [w EXCEPT !.dielectric.ion_channel[1][2] = @ - 1]
    ELSE [w EXCEPT !.dielectric.ion_channel = None]

\* update: the ionized channel counts down
UpdateIonChannel(w) ==
    IF IsNone(w.dielectric.ion_channel) THEN w
    ELSE IF Val(w.dielectric.ion_channel)[2] > 1
    THEN [w EXCEPT !.dielectric.ion_channel[1][2] = @ - 1]
    ELSE [w EXCEPT !.dielectric.ion_channel = None]

\* update: sync to global state
SyncDielectric(w) ==
    [w EXCEPT !.state.debris_volume = w.dielectric.debris_volume,
              !.state.debris_density = w.dielectric.debris_density,
              !.state.cavity_volume = w.dielectric.cavity_volume,
              !.state.flow_rate = w.dielectric.flow_condition,
              !.state.debris_concentration = w.dielectric.debris_density,
              !.state.dielectric_flow_rate =
                  w.dielectric.flow_condition * base_flow_rate,
              !.state.ionized_channel = w.dielectric.ion_channel]

\* DielectricModule.update
DielectricUpdate(w) ==
    SyncDielectric(UpdateIonChannel(RemoveDebris(UpdateFlowCondition(
        UpdateDebrisDensity(AddSparkDebris(UpdateCavityVolume(w)))))))

---------------------------------------------------------------------------
(* WireModule (modules/wire.py)                                            *)

\* WireModuleParameters; lengths in mm, the defaults 30, 30 and 0.2 scaled
\* down to a wire of four segments
buffer_len_bottom == 1
buffer_len_top == 1
segment_len == 1
\* 293.15 K
spool_T == 29315
contact_offset_bottom == 1
contact_offset_top == 1
\* [W/m^2/K]
base_convection_coefficient == 100
\* 0.1, 0.5 and 1.0, in 1/Q
plasma_efficiency == 100
convection_velocity_factor == 500
convection_flow_enhancement == 1000
\* the default False switched on, so that the zone mean is computed
compute_zone_mean == TRUE
\* the default 100 scaled down to the run length
zone_mean_interval == 2
\* 0.9 and 1.1, in 1/Q
critical_temp_threshold == 900
wire_breaking_temp_factor == 1100

\* the wire material "brass" of core/material_db.py: 1173 K, 1500 K and
\* 0.0039 per K (in 1e-5 per K)
melting_point == 117300
breaking_temperature_of_material == 150000
temperature_coefficient == 390

\* int(a / b) of Python: the quotient truncated toward zero
TruncDiv(a, b) == IF a >= 0 THEN a \div b ELSE -((-a) \div b)

\* WireModule.__init__, geometry setup from buffer lengths bb and bt,
\* workpiece height h and segment length seg
SegmentCount(bb, bt, h, seg) == Max(1, TruncDiv(bb + h + bt, seg))
ZoneEnd(bb, bt, h, seg) ==
    Min(bb \div seg + h \div seg, SegmentCount(bb, bt, h, seg))
ZoneStart(bb, bt, h, seg) == Min(bb \div seg, ZoneEnd(bb, bt, h, seg))

\* WireModule.__init__, electrical contact positions from the contact
\* offsets cob and cot
ContactBottomIdx(bb, bt, h, seg, cob) ==
    Max(0, Min(Max(0, TruncDiv(bb - cob, seg)), ZoneStart(bb, bt, h, seg) - 1))
ContactTopIdx(bb, bt, h, seg, cot) ==
    Min(SegmentCount(bb, bt, h, seg) - 1,
        Max(Min(SegmentCount(bb, bt, h, seg) - 1, TruncDiv(bb + h + cot, seg)),
            ZoneEnd(bb, bt, h, seg)))

\* WireModule.__init__, zone boundaries: zone_size of the actual zone
ZoneSize(azs, aze) == IF aze > azs THEN aze - azs ELSE 1

\* WireModule.__init__: segment count, workpiece zone and contact indices
WireGeometry(bb, bt, h, seg, cob, cot) ==
    [ n_segments |-> SegmentCount(bb, bt, h, seg),
      zone_start |-> ZoneStart(bb, bt, h, seg),
      zone_end |-> ZoneEnd(bb, bt, h, seg),
      actual_zone_start |->
          Min(ZoneStart(bb, bt, h, seg), SegmentCount(bb, bt, h, seg) - 1),
      actual_zone_end |->
          Min(ZoneEnd(bb, bt, h, seg), SegmentCount(bb, bt, h, seg)),
      zone_size |->
          ZoneSize(Min(ZoneStart(bb, bt, h, seg), SegmentCount(bb, bt, h, seg) - 1),
                   Min(ZoneEnd(bb, bt, h, seg), SegmentCount(bb, bt, h, seg))),
      contact_bottom_idx |-> ContactBottomIdx(bb, bt, h, seg, cob),
      contact_top_idx |-> ContactTopIdx(bb, bt, h, seg, cot) ]

\* the geometry of the configured wire
geometry ==
    WireGeometry(buffer_len_bottom, buffer_len_top, workpiece_height,
                 segment_len, contact_offset_bottom, contact_offset_top)
n_segments == geometry.n_segments

\* thermal coefficients as rationals <<num, den>>:
\* k_cond_coeff = 1/48 W/K, in mW per cK
k_cond_coeff == <<10, 48>>
\* the surface area A: h * A is 1/48 W/K at h = 100, in mW per cK
surface_area == <<1, 480>>
\* density * specific_heat * v_wire * S = 1/48 W/K, in mW per cK
adv_coeff == <<10, 48>>
\* joule_geom_factor * rho_elec, in mW per A^2
joule_factor == <<1, 1>>
\* dt_sim / denominator = 1 K/W, in cK per mW
temp_update_factor == <<1, 10>>
\* melting_point * critical_temp_threshold
critical_temperature == (melting_point * critical_temp_threshold) \div Q
breaking_temperature == breaking_temperature_of_material

\* the product r * x of a rational r and an integer x
Scaled(x, r) == (r[1] * x) \div r[2]

\* np.full(n_segments, spool_T)
FullSpool == [i \in 1..n_segments |-> spool_T]

\* WireModule.__init__: the module's private state
WireInit ==
    [ h_eff_zone |-> [i \in 1..n_segments |-> 0],
      last_zone_mean |-> spool_T,
      last_flow_condition |-> 0,
      zone_mean_counter |-> 0 ]

\* _update_convection_coefficients: h_eff_base
HEffBase(wire_unwind_vel) ==
    Max((base_convection_coefficient
            * (Q + Max(-900, (convection_velocity_factor * wire_unwind_vel) \div Q)))
            \div Q,
        base_convection_coefficient \div 10)

\* _update_convection_coefficients: h_eff_enhanced
HEffEnhanced(h_eff_base, flow_condition) ==
    (h_eff_base * (Q + (convection_flow_enhancement * flow_condition) \div Q)) \div Q

\* _update_convection_coefficients: the array filled from both values
FillConvection(h_eff_base, h_eff_enhanced) ==
    [i \in 1..n_segments |->
        IF geometry.actual_zone_start < geometry.actual_zone_end
           /\ i - 1 >= geometry.actual_zone_start
           /\ i - 1 < geometry.actual_zone_end
        THEN h_eff_enhanced
        ELSE h_eff_base]

\* _update_convection_coefficients: the new h_eff_zone
UpdateConvectionCoefficients(wire_unwind_vel, flow_condition) ==
    FillConvection(HEffBase(wire_unwind_vel),
                   HEffEnhanced(HEffBase(wire_unwind_vel), flow_condition))

\* compute_thermal_update; segment i of the program is element i + 1 of T.
\* 1) conduction of segment i
Conduction(T, i) ==
    IF n_segments > 1
    THEN IF i >= 1 /\ i <= n_segments - 2
         THEN Scaled(T[i] - 2 * T[i + 1] + T[i + 2], k_cond_coeff)
         ELSE IF i = n_segments - 1
         THEN Scaled(T[i] - T[i + 1], k_cond_coeff)
         ELSE 0
    ELSE 0

\* 2) Joule heating of segment i, between the electrical contacts
JouleHeating(T, I_squared, i) ==
    IF I_squared > 0 /\ i >= geometry.contact_bottom_idx
          /\ i <= geometry.contact_top_idx
    THEN Scaled((I_squared
                    * (Q + (temperature_coefficient * (T[i + 1] - spool_T))
                               \div (10 * Q))) \div Q,
                joule_factor)
    ELSE 0

\* 3) plasma heating of segment i
PlasmaHeating(plasma_idx, plasma_heat, i) ==
    IF plasma_idx >= 0 /\ plasma_idx < n_segments /\ plasma_idx = i
    THEN plasma_heat ELSE 0

\* 4) convection of segment i
Convection(T, h_eff_zone, dielectric_temp, i) ==
    Scaled(h_eff_zone[i + 1] * (T[i + 1] - dielectric_temp), surface_area)

\* an advection term that carries heat against the travel of the wire
AdvectionReversed(T, adv_on, i) ==
    IF adv_on /\ i >= 1 THEN Scaled(T[i + 1] - T[i], adv_coeff) ELSE 0

\* 5) advection of segment i
Advection(T, adv_on, i) ==
    IF adv_on /\ i >= 1 THEN Scaled(T[i] - T[i + 1], adv_coeff) ELSE 0

\* dT_dt[i]
HeatRate(T, I_squared, plasma_idx, plasma_heat, h_eff_zone, dielectric_temp, adv_on, i) ==
    Conduction(T, i) + JouleHeating(T, I_squared, i)
        + PlasmaHeating(plasma_idx, plasma_heat, i)
        - Convection(T, h_eff_zone, dielectric_temp, i)
        + Advection(T, adv_on, i)

\* T[0] = spool_T
ApplyBoundary(T) == [T EXCEPT ![1] = spool_T]

\* 6) temperature update
TemperatureUpdate(T, I_squared, plasma_idx, plasma_heat, h_eff_zone, dielectric_temp, adv_on) ==
    [i \in 1..n_segments |->
        T[i] + Scaled(HeatRate(T, I_squared, plasma_idx, plasma_heat, h_eff_zone,
                               dielectric_temp, adv_on, i - 1),
                      temp_update_factor)]

\* compute_thermal_update: the temperature field after one explicit Euler step
ComputeThermalUpdate(T, I_squared, plasma_idx, plasma_heat, h_eff_zone, dielectric_temp, adv_on) ==
    ApplyBoundary(TemperatureUpdate(ApplyBoundary(T), I_squared, plasma_idx,
                                    plasma_heat, h_eff_zone, dielectric_temp,
                                    adv_on))

\* np.max(T)
SeqMax(T) == CHOOSE m \in {T[i] : i \in 1..Len(T)} : \A i \in 1..Len(T) : T[i] <= m
\* the sum of T[lo .. hi]
RECURSIVE SeqSum(_, _, _)
SeqSum(T, lo, hi) == IF lo > hi THEN 0 ELSE T[lo] + SeqSum(T, lo + 1, hi)

\* _compute_zone_mean_fast
ComputeZoneMeanFast(T) ==
    IF geometry.zone_size > 0 /\ geometry.actual_zone_end <= Len(T)
    THEN SeqSum(T, geometry.actual_zone_start + 1, geometry.actual_zone_end)
            \div (geometry.actual_zone_end - geometry.actual_zone_start)
    ELSE SeqSum(T, 1, Len(T)) \div Len(T)

\* _check_wire_breaking with the maximum temperature max_temp
CheckAgainst(st, max_temp) ==
    [st EXCEPT !.time_in_critical_temp =
                   IF max_temp > critical_temperature THEN @ + 1 ELSE 0,
               !.is_wire_broken =
                   IF max_temp > breaking_temperature THEN TRUE ELSE @]

\* _check_wire_breaking: the state after the check
CheckWireBreaking(st, T) == CheckAgainst(st, SeqMax(T))

\* update: the temperature field is re-created when its length is wrong
EnsureTemperatureField(w) ==
    IF Len(w.state.wire_temperature) # n_segments
    THEN [w EXCEPT !.state.wire_temperature = FullSpool]
    ELSE w

\* update: convection coefficients refreshed when the flow condition moved
RefreshConvection(w) ==
    IF Abs(w.state.flow_rate - w.wire.last_flow_condition) > 10
    THEN [w EXCEPT !.wire.h_eff_zone =
                       UpdateConvectionCoefficients(w.state.wire_unwinding_velocity,
                                                    w.state.flow_rate),
                   !.wire.last_flow_condition = w.state.flow_rate]
    ELSE w

\* update: state.current or 0.0
CurrentOrZero(st) == IF IsNone(st.current) THEN 0 ELSE Val(st.current)

\* update: the segment heated by the plasma, -1 without a spark
PlasmaIdx(st) ==
    IF st.spark_status[1] = 1 /\ ~IsNone(st.spark_status[2])
    THEN IF segment_len # 0
         THEN geometry.zone_start + Val(st.spark_status[2]) \div segment_len
         ELSE geometry.zone_start
    ELSE -1

\* update: the plasma heat, in mW
PlasmaHeat(st) ==
    IF PlasmaIdx(st) >= 0 /\ PlasmaIdx(st) < n_segments
    THEN plasma_efficiency * (IF IsNone(st.voltage) THEN 0 ELSE Val(st.voltage))
            * CurrentOrZero(st)
    ELSE 0

\* update: the call of compute_thermal_update on the state's array
ThermalStep(w) ==
    [w EXCEPT !.state.wire_temperature =
        ComputeThermalUpdate(@, CurrentOrZero(w.state) * CurrentOrZero(w.state),
                             PlasmaIdx(w.state), PlasmaHeat(w.state),
                             w.wire.h_eff_zone, w.state.dielectric_temperature,
                             Abs(w.state.wire_unwinding_velocity) > 0)]

\* update: temperature monitoring and wire breaking
MonitorTemperature(w) ==
    [w EXCEPT !.state = CheckWireBreaking(@, w.state.wire_temperature)]

\* update: the zone mean is recomputed, the counter having reached the
\* interval
RecomputeZoneMean(w, zone_mean) ==
    [w EXCEPT !.wire.last_zone_mean = zone_mean,
              !.wire.zone_mean_counter = 0,
              !.state.wire_average_temperature = Some(zone_mean)]

\* update: zone mean of the counted tick
ZoneMeanAfterCount(w) ==
    IF w.wire.zone_mean_counter >= zone_mean_interval
    THEN RecomputeZoneMean(w, ComputeZoneMeanFast(w.state.wire_temperature))
    ELSE [w EXCEPT !.state.wire_average_temperature = Some(w.wire.last_zone_mean)]

\* update: compute zone mean only when needed
UpdateZoneMean(w) ==
    IF compute_zone_mean
    THEN ZoneMeanAfterCount([w EXCEPT !.wire.zone_mean_counter = @ + 1])
    ELSE w

\* a wire update without the broken-wire guard
WireUpdateUnguarded(w) ==
    UpdateZoneMean(MonitorTemperature(ThermalStep(RefreshConvection(
        EnsureTemperatureField(w)))))

\* WireModule.update
WireUpdate(w) ==
    IF w.state.is_wire_broken THEN w
    ELSE UpdateZoneMean(MonitorTemperature(ThermalStep(RefreshConvection(
            EnsureTemperatureField(w)))))

---------------------------------------------------------------------------
(* MechanicsModule (modules/mechanics.py); one tick is the time unit       *)

\* [rad per tick]
omega_n == 8
\* -2 * zeta * omega_n with zeta = 1/16
damping_coeff == -1
stiffness_coeff == -(omega_n * omega_n)
\* physical limits, per tick
max_acceleration == 40
max_jerk_dt == 30
max_speed == 50

\* the values of mechanics_control_mode the constructor accepts
ControlModes == {"position", "velocity"}

\* MechanicsModule.__init__: the module's private state
MechanicsInit == [ prev_accel |-> 0 ]

\* damping_coeff * v + stiffness_coeff * x_error
PositionLaw(v, x_error) == damping_coeff * v + stiffness_coeff * x_error

\* _compute_position_accel: x_error = x - (x + state.target_delta)
ComputePositionAccel(st, x, v) == PositionLaw(v, x - (x + st.target_delta))

\* _compute_velocity_accel: v_error = v - state.target_delta
ComputeVelocityAccel(st, x, v) == -omega_n * (v - st.target_delta)

\* the clip "if a > hi: a = hi elif a < -hi: a = -hi"
Clip(a, hi) == IF a > hi THEN hi ELSE IF a < -hi THEN -hi ELSE a

\* update: the nominal acceleration of the dispatched control law, clipped
NominalAccel(st, mode) ==
    Clip(IF mode = "position"
         THEN ComputePositionAccel(st, st.wire_position, st.wire_velocity)
         ELSE ComputeVelocityAccel(st, st.wire_position, st.wire_velocity),
         max_acceleration)

\* an update that applies the nominal acceleration at once
LimitJerkUnlimited(prev_accel, a_nom) == a_nom

\* update: jerk limiting, the acceleration a from prev_accel and a_nom
LimitJerk(prev_accel, a_nom) == prev_accel + Clip(a_nom - prev_accel, max_jerk_dt)

\* update: x += v * dt
UpdatePosition(w) == [w EXCEPT !.state.wire_position = @ + w.state.wire_velocity * dt]

\* update: the acceleration a is stored, velocity and position integrated
Integrate(w, a) ==
    UpdatePosition([w EXCEPT !.mechanics.prev_accel = a,
                             !.state.wire_velocity = Clip(@ + a * dt, max_speed)])

\* MechanicsModule.update, in control mode mode
MechanicsUpdate(w, mode) ==
    Integrate(w, LimitJerk(w.mechanics.prev_accel, NominalAccel(w.state, mode)))

---------------------------------------------------------------------------
(* EnvironmentConfig (core/env_config.py) as an object: a record of its    *)
(* ten fields; lengths and temperatures in the units of the model          *)
(* (wire_diameter in um, max_wire_temperature in cK).  A dict is a         *)
(* function from its keys.                                                 *)

\* EnvironmentConfig.__dataclass_fields__
ConfigFields ==
    { "workpiece_height", "wire_diameter", "wire_material", "dt",
      "servo_interval", "initial_gap", "target_cutting_distance",
      "max_wire_temperature", "min_gap_for_operation", "max_cutting_force" }

\* EnvironmentConfig(): every field at its default
EnvironmentConfigDefaults ==
    [ workpiece_height |-> 20,
      wire_diameter |-> 200,
      wire_material |-> "brass",
      dt |-> 1,
      servo_interval |-> 1000,
      initial_gap |-> 50,
      target_cutting_distance |-> 500,
      max_wire_temperature |-> 150000,
      min_gap_for_operation |-> 2,
      max_cutting_force |-> 100 ]

\* EnvironmentConfig(**kwargs): the fields given, the others at their
\* defaults
EnvironmentConfig(kwargs) ==
    [f \in ConfigFields |->
        IF f \in DOMAIN kwargs THEN kwargs[f] ELSE EnvironmentConfigDefaults[f]]

\* EnvironmentConfig.from_dict: the constructor called with the items of
\* config_dict whose key is a field
from_dict(config_dict) ==
    EnvironmentConfig([k \in DOMAIN config_dict \cap ConfigFields |-> config_dict[k]])

\* a to_dict that leaves out the last field
to_dict_short(c) ==
    [ workpiece_height |-> c.workpiece_height,
      wire_diameter |-> c.wire_diameter,
      wire_material |-> c.wire_material,
      dt |-> c.dt,
      servo_interval |-> c.servo_interval,
      initial_gap |-> c.initial_gap,
      target_cutting_distance |-> c.target_cutting_distance,
      max_wire_temperature |-> c.max_wire_temperature,
      min_gap_for_operation |-> c.min_gap_for_operation ]

\* EnvironmentConfig.to_dict
to_dict(c) ==
    [ workpiece_height |-> c.workpiece_height,
      wire_diameter |-> c.wire_diameter,
      wire_material |-> c.wire_material,
      dt |-> c.dt,
      servo_interval |-> c.servo_interval,
      initial_gap |-> c.initial_gap,
      target_cutting_distance |-> c.target_cutting_distance,
      max_wire_temperature |-> c.max_wire_temperature,
      min_gap_for_operation |-> c.min_gap_for_operation,
      max_cutting_force |-> c.max_cutting_force ]

\* room temperature 293.15 K, the bound of validate
room_temperature == 29315

\* a validate that accepts zero dimensions and the room temperature itself
validate_lenient(c) ==
    IF c.workpiece_height < 0 THEN Some("workpiece_height must be positive")
    ELSE IF c.wire_diameter < 0 THEN Some("wire_diameter must be positive")
    ELSE IF c.initial_gap < 0 THEN Some("initial_gap must be positive")
    ELSE IF c.target_cutting_distance < 0
    THEN Some("target_cutting_distance must be positive")
    ELSE IF c.dt < 0 THEN Some("dt must be positive")
    ELSE IF c.servo_interval < 0 THEN Some("servo_interval must be positive")
    ELSE IF c.max_wire_temperature < room_temperature
    THEN Some("max_wire_temperature must be greater than room temperature")
    ELSE None

\* EnvironmentConfig.validate: the message of the ValueError it raises, None
\* when it returns
validate(c) ==
    IF c.workpiece_height <= 0 THEN Some("workpiece_height must be positive")
    ELSE IF c.wire_diameter <= 0 THEN Some("wire_diameter must be positive")
    ELSE IF c.initial_gap <= 0 THEN Some("initial_gap must be positive")
    ELSE IF c.target_cutting_distance <= 0
    THEN Some("target_cutting_distance must be positive")
    ELSE IF c.dt <= 0 THEN Some("dt must be positive")
    ELSE IF c.servo_interval <= 0 THEN Some("servo_interval must be positive")
    ELSE IF c.max_wire_temperature <= room_temperature
    THEN Some("max_wire_temperature must be greater than room temperature")
    ELSE None

\* the configuration the environment of this model is constructed with
configured ==
    [ workpiece_height |-> workpiece_height,
      wire_diameter |-> wire_diameter,
      wire_material |-> "brass",
      dt |-> dt,
      servo_interval |-> servo_interval,
      initial_gap |-> initial_gap,
      target_cutting_distance |-> target_cutting_distance,
      max_wire_temperature |-> breaking_temperature_of_material,
      min_gap_for_operation |-> 1,
      max_cutting_force |-> 50 ]

---------------------------------------------------------------------------
(* MaterialDatabase (core/material_db.py) and the constructor of the       *)
(* environment.  A call that raises returns [raised |-> <<type>>, env |->  *)
(* None]; a constructor that returns gives [raised |-> None, env |->       *)
(* <<the environment>>].                                                   *)

\* _create_default_wire_materials: the names of the built-in table
wire_materials == {"brass"}

Raise(error) == [raised |-> Some(error), env |-> None]

\* WireModule.__init__ and the other module constructors for configuration c:
\* the process state and the private state of each module
ModulesInit(c) ==
    [ state |-> [EDMState EXCEPT !.wire_temperature =
                    [i \in 1..SegmentCount(buffer_len_bottom, buffer_len_top,
                                           c.workpiece_height, segment_len)
                        |-> spool_T]],
      ignition |-> IgnitionInit,
      dielectric |-> DielectricInit,
      wire |-> [WireInit EXCEPT !.h_eff_zone =
                    [i \in 1..SegmentCount(buffer_len_bottom, buffer_len_top,
                                           c.workpiece_height, segment_len)
                        |-> 0]],
      mechanics |-> MechanicsInit ]

\* a constructor that falls back on brass for an unknown wire material
BuildModulesWithFallback(mode, c) ==
    [ raised |-> None,
      env |-> Some([ mechanics_control_mode |-> mode,
                     config |-> c,
                     modules |-> ModulesInit(c) ]) ]

\* WireEDMEnv.__init__ with a valid configuration c: the modules are built;
\* WireModule.__init__ looks the wire material up (get_wire_material)
BuildModules(mode, c) ==
    IF c.wire_material \notin wire_materials THEN Raise("ValueError")
    ELSE [ raised |-> None,
           env |-> Some([ mechanics_control_mode |-> mode,
                          config |-> c,
                          modules |-> ModulesInit(c) ]) ]

\* WireEDMEnv.__init__ after the control mode was accepted: self.config is
\* validated
ValidateAndBuild(mode, c) ==
    IF ~IsNone(validate(c)) THEN Raise("ValueError") ELSE BuildModules(mode, c)

\* config or EnvironmentConfig()
ConfigOrDefault(cfg) == IF IsNone(cfg) THEN EnvironmentConfigDefaults ELSE Val(cfg)

\* WireEDMEnv.__init__(mechanics_control_mode=mode, config=cfg)
WireEDMEnvInit(mode, cfg) ==
    IF mode \notin ControlModes THEN Raise("ValueError")
    ELSE ValidateAndBuild(mode, ConfigOrDefault(cfg))

---------------------------------------------------------------------------
(* WireEDMEnv (envs/wire_edm.py)                                           *)

VARIABLES
    config,         \* env.config, the EnvironmentConfig; before construction
                    \* the configuration object of the caller
    state,          \* env.state, the EDMState
    ignition,       \* private state of env.ignition
    dielectric,     \* private state of env.dielectric
    wire,           \* private state of env.wire
    mechanics,      \* private state of env.mechanics
    np_random,      \* env.np_random
    control_mode,   \* env.mechanics_control_mode; before construction the
                    \* mode the caller asks for
    ret,            \* what the last call (constructor, reset, step, to_dict,
                    \* from_dict) returned
    calls,          \* call counters: steps and resets since construction,
                    \* steps since the last reset (or construction)
    twin            \* a second environment of the same configuration,
                    \* constructed when this one was last reset with a seed,
                    \* reset with that seed and stepped with the same
                    \* actions since: its objects and its last return
                    \* (None before the first seeded reset)

vars == <<config, state, ignition, dielectric, wire, mechanics, np_random,
          control_mode, ret, calls, twin>>

\* the environment's objects as one record
World ==
    [ state |-> state, ignition |-> ignition, dielectric |-> dielectric,
      wire |-> wire, mechanics |-> mechanics, np_random |-> np_random ]

\* the seeds reset is called with, each named by the stream it seeds: the
\* streams with at most one low draw per period
Seeds == {s \in Streams : Cardinality({i \in 1..RngPeriod : s[i] = 0}) <= 1}

\* the actions step is called with
Actions ==
    { [ servo |-> 1, target_voltage |-> 200, current_mode |-> 19,
        ON_time |-> 1, OFF_time |-> 0 ],
      [ servo |-> 0, target_voltage |-> 0, current_mode |-> 20,
        ON_time |-> 0, OFF_time |-> 2 ],
      [ servo |-> -1, target_voltage |-> 100, current_mode |-> 1,
        ON_time |-> 3, OFF_time |-> 1 ] }

\* _apply_action
ApplyAction(st, action) ==
    [st EXCEPT !.target_delta = action.servo,
               !.target_voltage = Some(action.target_voltage),
               !.current_mode = Some(ModeName(action.current_mode)),
               !.ON_time = Some(action.ON_time),
               !.OFF_time = Some(action.OFF_time)]

\* a termination check whose target test is strict
CheckTerminationStrict(st) ==
    IF st.wire_position > st.workpiece_position + 100
    THEN [state |-> [st EXCEPT !.is_wire_broken = TRUE], terminated |-> TRUE]
    ELSE IF st.workpiece_position > st.target_position
    THEN [state |-> [st EXCEPT !.is_target_distance_reached = TRUE],
          terminated |-> TRUE]
    ELSE [state |-> st, terminated |-> FALSE]

\* a termination check that ends the run at the target without setting the
\* flag
CheckTerminationUnflagged(st) ==
    IF st.wire_position > st.workpiece_position + 100
    THEN [state |-> [st EXCEPT !.is_wire_broken = TRUE], terminated |-> TRUE]
    ELSE IF st.workpiece_position >= st.target_position
    THEN [state |-> st, terminated |-> TRUE]
    ELSE [state |-> st, terminated |-> FALSE]

\* _check_termination: [state, terminated]
CheckTermination(st) ==
    IF st.wire_position > st.workpiece_position + 100
    THEN [state |-> [st EXCEPT !.is_wire_broken = TRUE], terminated |-> TRUE]
    ELSE IF st.workpiece_position >= st.target_position
    THEN [state |-> [st EXCEPT !.is_target_distance_reached = TRUE],
          terminated |-> TRUE]
    ELSE [state |-> st, terminated |-> FALSE]

\* spark timers that leave time_since_spark_end running during a discharge
SparkTimersEndRunning(st) ==
    IF st.spark_status[1] = 1
    THEN [st EXCEPT !.time_since_spark_ignition = @ + dt,
                    !.time_since_spark_end = @ + dt]
    ELSE [st EXCEPT !.time_since_spark_end = @ + dt,
                    !.time_since_spark_ignition = 0]

\* step, time bookkeeping: the spark timers
SparkTimers(st) ==
    IF st.spark_status[1] = 1
    THEN [st EXCEPT !.time_since_spark_ignition = @ + dt,
                    !.time_since_spark_end = 0]
    ELSE [st EXCEPT !.time_since_spark_end = @ + dt,
                    !.time_since_spark_ignition = 0]

\* step, time bookkeeping
TimeBookkeeping(st) ==
    SparkTimers([st EXCEPT !.time = @ + dt,
                           !.time_since_servo = @ + dt,
                           !.time_since_open_voltage = @ + dt])

\* a control-tick test with a strict comparison
IsCtrlStepStrict(st) == st.time_since_servo > servo_interval

\* is_ctrl_step of step
IsCtrlStep(st) == st.time_since_servo >= servo_interval

\* a step that applies its action on every tick
ControlTickEveryStep(w, action) ==
    [w EXCEPT !.state = [ApplyAction(w.state, action)
                            EXCEPT !.time_since_servo =
                                IF IsCtrlStep(w.state) THEN 0 ELSE @]]

\* step, the control-tick part: the world entering the physics update
ControlTick(w, action) ==
    IF IsCtrlStep(w.state)
    THEN [w EXCEPT !.state = [ApplyAction(w.state, action)
                                EXCEPT !.time_since_servo = 0]]
    ELSE w

\* a physics advance that updates the dielectric before the material removal
PhysicsAdvanceDielectricFirst(w) ==
    WireUpdate(MaterialUpdate(DielectricUpdate(IgnitionUpdate(w))))

\* step, "physics advance 1 us": the module updates up to the wire-break test
PhysicsAdvance(w) ==
    WireUpdate(DielectricUpdate(MaterialUpdate(IgnitionUpdate(w))))

\* step: what it returns when the wire is broken after the wire update
BrokenReturn ==
    [ op |-> "step", obs |-> None, reward |-> 0, terminated |-> TRUE,
      truncated |-> FALSE, info |-> [wire_broken |-> TRUE] ]

\* step: the info dictionary of a completed step
StepInfo(st, is_ctrl_step) ==
    [ wire_broken |-> st.is_wire_broken,
      target_reached |-> st.is_target_distance_reached,
      spark_state |-> st.spark_status[1],
      time |-> st.time,
      control_step |-> is_ctrl_step ]

\* step: what a completed step returns, chk the result of _check_termination
CompletedReturn(w, chk, is_ctrl_step) ==
    [ world |-> [w EXCEPT !.state = chk.state],
      ret |-> [ op |-> "step",
                obs |-> IF is_ctrl_step THEN Some(<< >>) ELSE None,
                reward |-> 0,
                terminated |-> chk.terminated,
                truncated |-> FALSE,
                info |-> StepInfo(chk.state, is_ctrl_step) ] ]

\* step, after the mechanics update: bookkeeping, termination, return
ConcludeStep(w, is_ctrl_step) ==
    CompletedReturn(w, CheckTermination(TimeBookkeeping(w.state)), is_ctrl_step)

\* a step that runs the mechanics update before the wire-break test
AfterPhysicsMoving(w, mode, is_ctrl_step) ==
    IF w.state.is_wire_broken
    THEN [world |-> MechanicsUpdate(w, mode), ret |-> BrokenReturn]
    ELSE ConcludeStep(MechanicsUpdate(w, mode), is_ctrl_step)

\* step, after the wire update: the wire-break test and the rest of the step
AfterPhysics(w, mode, is_ctrl_step) ==
    IF w.state.is_wire_broken
    THEN [world |-> w, ret |-> BrokenReturn]
    ELSE ConcludeStep(MechanicsUpdate(w, mode), is_ctrl_step)

\* step: [world, ret], in control mode mode
StepResult(w, mode, action) ==
    AfterPhysics(PhysicsAdvance(ControlTick(w, action)), mode, IsCtrlStep(w.state))

\* a reset that forgets the configuration
ResetStateDefaults == EDMState

\* reset: the fresh state
ResetState ==
    [EDMState EXCEPT !.workpiece_position = initial_gap,
                     !.target_position = target_cutting_distance]

\* reset: what it returns
ResetReturn == [op |-> "reset", obs |-> Some(<< >>), info |-> << >>]

\* WireEDMEnv.__init__ followed by reset(seed=seed): the environment's objects
\* and the return of reset
FreshEpisode(seed) ==
    [ world |-> [ state |-> ResetState, ignition |-> IgnitionInit,
                  dielectric |-> DielectricInit, wire |-> WireInit,
                  mechanics |-> MechanicsInit, np_random |-> seed ],
      ret |-> ResetReturn ]

\* WireEDMEnv.__init__ with an unseeded generator and either control mode;
\* WireModule.__init__ fills the temperature field of the fresh state
Init ==
    /\ config = configured
    /\ state = [EDMState EXCEPT !.wire_temperature = FullSpool]
    /\ ignition = IgnitionInit
    /\ dielectric = DielectricInit
    /\ wire = WireInit
    /\ mechanics = MechanicsInit
    /\ np_random \in Seeds
    /\ control_mode \in ControlModes
    /\ ret = [op |-> "init"]
    /\ calls = [steps |-> 0, resets |-> 0, episode |-> 0]
    /\ twin = None

\* reset(seed=seed); seed None keeps the generator
Reset(seed) ==
    /\ calls.resets < MaxResets
    /\ state' = ResetState
    /\ np_random' = IF IsNone(seed) THEN np_random ELSE Val(seed)
    /\ ret' = ResetReturn
    /\ calls' = [calls EXCEPT !.resets = @ + 1, !.episode = 0]
    /\ twin' = IF IsNone(seed) THEN None ELSE Some(FreshEpisode(Val(seed)))
    /\ UNCHANGED <<config, ignition, dielectric, wire, mechanics, control_mode>>

\* the environment after a step with result r = [world, ret]
StepTo(r) ==
    /\ state' = r.world.state
    /\ ignition' = r.world.ignition
    /\ dielectric' = r.world.dielectric
    /\ wire' = r.world.wire
    /\ mechanics' = r.world.mechanics
    /\ np_random' = r.world.np_random
    /\ ret' = r.ret

\* step(action)
Step(action) ==
    /\ calls.steps < MaxSteps
    /\ StepTo(StepResult(World, control_mode, action))
    /\ calls' = [calls EXCEPT !.steps = @ + 1, !.episode = @ + 1]
    /\ twin' = IF IsNone(twin) THEN None
               ELSE Some(StepResult(Val(twin).world, control_mode, action))
    /\ UNCHANGED <<config, control_mode>>

Next ==
    \/ \E seed \in {None} \cup {Some(s) : s \in Seeds} : Reset(seed)
    \/ \E action \in Actions : Step(action)

Spec == Init /\ [][Next]_vars

---------------------------------------------------------------------------
(* Configuration objects and the constructor: a caller holds a             *)
(* configuration object and a control mode, exports and re-imports the     *)
(* configuration, and constructs an environment with both.                 *)

\* values a caller may give to a field validate looks at: negative, zero, and
\* the value of this model's configuration
Candidates(valid) == {-1, 0, valid}

\* the configuration objects of the callers
Configs ==
    { [configured EXCEPT !.workpiece_height = h, !.wire_diameter = d,
                         !.wire_material = m, !.dt = t, !.servo_interval = s,
                         !.initial_gap = g, !.target_cutting_distance = c,
                         !.max_wire_temperature = T] :
        h \in Candidates(workpiece_height), d \in Candidates(wire_diameter),
        m \in {"brass", "steel"}, t \in Candidates(dt),
        s \in Candidates(servo_interval), g \in Candidates(initial_gap),
        c \in Candidates(target_cutting_distance),
        T \in {room_temperature - 1, room_temperature,
               breaking_temperature_of_material} }

\* the control modes the callers ask for
ModeArguments == ControlModes \cup {"invalid"}

\* the dict config_dict without the keys dropped and with the keys extra,
\* which are no fields, added
EditedDict(config_dict, dropped, extra) ==
    [k \in (DOMAIN config_dict \ dropped) \cup extra |->
        IF k \in extra THEN 7 ELSE config_dict[k]]

\* the edits of an exported dict before it is imported again
DroppedKeys == {{}, {"dt"}, {"wire_material", "max_cutting_force"}, ConfigFields}
ExtraKeys == {{}, {"gap", "material"}}

\* before any call: a configuration object and a control mode, no environment
InitConfig ==
    /\ config \in Configs
    /\ control_mode \in ModeArguments
    /\ state = None
    /\ ignition = None
    /\ dielectric = None
    /\ wire = None
    /\ mechanics = None
    /\ np_random = None
    /\ ret = [op |-> "none"]
    /\ calls = [steps |-> 0, resets |-> 0, episode |-> 0]
    /\ twin = None

\* config.to_dict()
ToDict ==
    /\ ret.op = "none"
    /\ ret' = [op |-> "to_dict", value |-> to_dict(config)]
    /\ UNCHANGED <<config, state, ignition, dielectric, wire, mechanics,
                   np_random, control_mode, calls, twin>>

\* EnvironmentConfig.from_dict(d), d the dict to_dict returned, edited
FromDict(dropped, extra) ==
    /\ ret.op = "to_dict"
    /\ ret' = [op |-> "from_dict",
               config_dict |-> EditedDict(ret.value, dropped, extra),
               value |-> from_dict(EditedDict(ret.value, dropped, extra))]
    /\ UNCHANGED <<config, state, ignition, dielectric, wire, mechanics,
                   np_random, control_mode, calls, twin>>

\* the environment r.env is there: WireEDMEnv(...) returned
Constructed(r, seed) ==
    /\ config' = Val(r.env).config
    /\ control_mode' = Val(r.env).mechanics_control_mode
    /\ state' = Val(r.env).modules.state
    /\ ignition' = Val(r.env).modules.ignition
    /\ dielectric' = Val(r.env).modules.dielectric
    /\ wire' = Val(r.env).modules.wire
    /\ mechanics' = Val(r.env).modules.mechanics
    /\ np_random' = seed
    /\ ret' = [op |-> "init"]

\* WireEDMEnv(...) raised: no environment
NotConstructed(r) ==
    /\ ret' = [op |-> "raise", error |-> Val(r.raised)]
    /\ UNCHANGED <<config, state, ignition, dielectric, wire, mechanics,
                   np_random, control_mode>>

\* WireEDMEnv(mechanics_control_mode=control_mode, config=cfg), its
\* generator seeded from the system
Construct(cfg, seed) ==
    /\ ret.op = "none"
    /\ IF IsNone(WireEDMEnvInit(control_mode, cfg).raised)
       THEN Constructed(WireEDMEnvInit(control_mode, cfg), seed)
       ELSE NotConstructed(WireEDMEnvInit(control_mode, cfg))
    /\ UNCHANGED <<calls, twin>>

NextConfig ==
    \/ ToDict
    \/ \E dropped \in DroppedKeys, extra \in ExtraKeys : FromDict(dropped, extra)
    \/ \E cfg \in {None, Some(config)}, seed \in Seeds : Construct(cfg, seed)

SpecConfig == InitConfig /\ [][NextConfig]_vars

---------------------------------------------------------------------------
(* The end-to-end run: the environment is reset with a seed and stepped    *)
(* with one and the same action, a positive feed, until a step returns     *)
(* terminated; then it may be reset for another run.                       *)

\* the constant action of the run: the action of Actions with a positive feed
FeedAction == CHOOSE action \in Actions : action.servo > 0

\* env.reset(seed=seed) at the start of a run
FeedReset(seed) ==
    /\ ret.op = "step" => ret.terminated
    /\ Reset(Some(seed))

\* env.step(action) of the run loop, left when terminated
FeedStep ==
    /\ calls.resets > 0
    /\ ret.op = "step" => ~ret.terminated
    /\ Step(FeedAction)

NextFeed ==
    \/ \E seed \in Streams : FeedReset(seed)
    \/ FeedStep

SpecFeed == Init /\ [][NextFeed]_vars

---------------------------------------------------------------------------
(* Properties of reset                                                     *)

\* C1: from any reachable state, reset() yields a process state with elapsed
\* time 0, time since the last control tick 0, workpiece_position equal to
\* the configured initial_gap, target_position equal to the configured
\* target_cutting_distance, wire position and velocity 0, discharge status
\* (0, null, 0) and the four flags short-circuit, wire-broken,
\* wire-colliding and target-reached false.
ResetYieldsInitialState ==
    ret.op = "reset" =>
        /\ state.time = 0
        /\ state.time_since_servo = 0
        /\ state.workpiece_position = initial_gap
        /\ state.target_position = target_cutting_distance
        /\ state.wire_position = 0
        /\ state.wire_velocity = 0
        /\ state.spark_status = <<0, None, 0>>
        /\ ~state.is_short_circuit
        /\ ~state.is_wire_broken
        /\ ~state.is_wire_colliding
        /\ ~state.is_target_distance_reached

\* reset has just returned on an environment that was stepped before, a
\* short-circuit countdown of those steps still running
ResetAfterSteps ==
    /\ ret.op = "reset"
    /\ calls.steps > 0
    /\ ignition.debris_short_remaining > 0

\* C2: at every point the caller can observe the state (after construction,
\* right after reset and before the first step, after every step, after the
\* wire has broken) the wire temperature field has exactly n_segments
\* entries, and right after reset every entry is the spool temperature.
TemperatureFieldHasAllSegments ==
    /\ Len(state.wire_temperature) = n_segments
    /\ ret.op = "reset" => state.wire_temperature = FullSpool

\* C3: an episode that starts with reset(seed=s) and is driven by a given
\* action sequence produces the same state snapshots, termination flags and
\* info records as the episode of the same seed and the same actions on a
\* freshly constructed environment, whatever steps were run on this
\* environment before the reset.
EpisodeReproducesTwin ==
    ~IsNone(twin) => state = Val(twin).world.state /\ ret = Val(twin).ret

---------------------------------------------------------------------------
(* Properties of the discharge state machine                               *)

\* C4: the discharge state code is always one of 0 (idle), 1 (spark),
\* -1 (short-pulse), -2 (rest), and over one tick it stays the same or moves
\* along exactly one of the edges idle->spark, idle->short-pulse,
\* spark->rest, short-pulse->rest, rest->idle.
DischargeCodeFollowsEdges ==
    [][/\ state'.spark_status[1] \in {0, 1, -1, -2}
       /\ calls'.steps # calls.steps =>
            \/ state'.spark_status[1] = state.spark_status[1]
            \/ <<state.spark_status[1], state'.spark_status[1]>>
                  \in {<<0, 1>>, <<0, -1>>, <<1, -2>>, <<-1, -2>>, <<-2, 0>>}]_vars

\* the discharge is at rest on the tick after a spark's last (the spark
\* timer of the previous tick was running: time_since_spark_end was 0)
RestAfterSpark ==
    /\ state.spark_status[1] = -2
    /\ state.time_since_spark_end = dt
    /\ ~state.is_wire_broken

\* C5: at the end of every ignition update, and so at every tick boundary
\* after a step, is_short_circuit = true implies voltage = 0, whatever the
\* discharge state and whatever the target voltage.
ShortCircuitForcesZeroVoltage ==
    /\ state.is_short_circuit => state.voltage = Some(0)
    /\ \A action \in Actions :
          IgnitionUpdate(ControlTick(World, action)).state.is_short_circuit
              => IgnitionUpdate(ControlTick(World, action)).state.voltage = Some(0)

\* a short circuit during a spark, an action's target voltage in force
ShortCircuitDuringSpark ==
    /\ state.is_short_circuit
    /\ state.spark_status[1] = 1
    /\ ~IsNone(state.target_voltage)

---------------------------------------------------------------------------
(* Properties of the broken wire                                           *)

\* C6: once is_wire_broken is true it stays true on every later step until
\* reset, every later step returns terminated = true, and the temperature
\* field, the critical-temperature dwell counter and the zone-average
\* temperature are left unchanged.
WireBrokenIsTerminal ==
    [][(state.is_wire_broken /\ calls'.steps # calls.steps) =>
          /\ state'.is_wire_broken
          /\ ret'.terminated
          /\ state'.wire_temperature = state.wire_temperature
          /\ state'.time_in_critical_temp = state.time_in_critical_temp
          /\ state'.wire_average_temperature = state.wire_average_temperature]_vars

\* a step has returned on a wire that an earlier step found colliding
StepOnBrokenWire ==
    /\ state.is_wire_broken
    /\ ret = BrokenReturn
    /\ state.wire_position > state.workpiece_position + 100

\* C7: on a step in which is_wire_broken is true after the wire module's
\* update, step returns at once with terminated = true and info
\* wire_broken = true, and the mechanics update is skipped: wire_position,
\* wire_velocity, the mechanics module's previous acceleration and the
\* elapsed time keep the values they had before the step.
BrokenWireStepSkipsMechanics ==
    [][\A action \in Actions :
          (/\ calls'.steps # calls.steps
           /\ Step(action)
           /\ PhysicsAdvance(ControlTick(World, action)).state.is_wire_broken)
          => /\ ret'.terminated
             /\ ret'.info.wire_broken
             /\ state'.wire_position = state.wire_position
             /\ state'.wire_velocity = state.wire_velocity
             /\ mechanics'.prev_accel = mechanics.prev_accel
             /\ state'.time = state.time]_vars

\* the wire overheated while the axis was moving, and the step returned early
BrokenWhileMoving ==
    /\ ret = BrokenReturn
    /\ state.wire_position <= state.workpiece_position + 100
    /\ state.wire_velocity # 0
    /\ mechanics.prev_accel # 0

\* C8: every return of step, on control ticks, non-control ticks and
\* terminating ticks alike (wire break, collision, target reached), carries
\* an info record with the five fields wire_broken, target_reached,
\* spark_state, time and control_step.
StepInfoHasAllFields ==
    ret.op = "step" =>
        DOMAIN ret.info = {"wire_broken", "target_reached", "spark_state",
                           "time", "control_step"}

---------------------------------------------------------------------------
(* Properties of the control tick                                          *)

\* C9: the setpoints target_voltage, current_mode, ON_time, OFF_time and
\* target_delta are modified only by a step that is a control tick
\* (time_since_servo >= servo_interval on entry), where they take the values
\* of that step's action; on every other step they are unchanged and the
\* action has no effect on the state.
SetpointsOnlyOnControlTicks ==
    [][\A action \in Actions : (calls'.steps # calls.steps /\ Step(action)) =>
          IF IsCtrlStep(state)
          THEN /\ state'.target_voltage = Some(action.target_voltage)
               /\ state'.current_mode = Some(ModeName(action.current_mode))
               /\ state'.ON_time = Some(action.ON_time)
               /\ state'.OFF_time = Some(action.OFF_time)
               /\ state'.target_delta = action.servo
          ELSE /\ state'.target_voltage = state.target_voltage
               /\ state'.current_mode = state.current_mode
               /\ state'.ON_time = state.ON_time
               /\ state'.OFF_time = state.OFF_time
               /\ state'.target_delta = state.target_delta
               /\ \A other \in Actions :
                     StepResult(World, control_mode, other)
                        = StepResult(World, control_mode, action)]_vars

\* a control tick has applied an action and a later step was not a control
\* tick
HeldSetpoints ==
    /\ ~IsNone(state.target_voltage)
    /\ state.time_since_servo > dt
    /\ ret.op = "step"
    /\ ~state.is_wire_broken

\* C10: counting step calls from a reset while the wire is not broken, step
\* n is a control tick exactly when n - 1 is a positive multiple of
\* servo_interval / dt; the first servo_interval / dt steps are not control
\* ticks (target_delta stays 0, the generator setpoints stay null), and on a
\* control tick time_since_servo is reset to zero before the physics update.
ControlTickSchedule ==
    /\ ~state.is_wire_broken =>
          (IsCtrlStep(state) <=>
              (calls.episode > 0 /\ calls.episode % (servo_interval \div dt) = 0))
    /\ (ret.op = "step" /\ ret # BrokenReturn) =>
          /\ ret.info.control_step <=>
                (calls.episode > 1
                    /\ (calls.episode - 1) % (servo_interval \div dt) = 0)
          /\ ret.info.control_step => state.time_since_servo = dt
    /\ calls.episode <= servo_interval \div dt =>
          /\ state.target_delta = 0
          /\ IsNone(state.target_voltage)
          /\ IsNone(state.current_mode)
          /\ IsNone(state.ON_time)
          /\ IsNone(state.OFF_time)
    /\ IsCtrlStep(state) =>
          \A action \in Actions :
              ControlTick(World, action).state.time_since_servo = 0

\* the second control tick of an episode started by reset has returned
SecondControlTick ==
    /\ calls.resets > 0
    /\ ret.op = "step"
    /\ ret # BrokenReturn
    /\ ret.info.control_step
    /\ calls.episode = 2 * (servo_interval \div dt) + 1

---------------------------------------------------------------------------
(* Properties of the termination check                                     *)

\* C11: after every completed physics tick, wire_position >
\* workpiece_position + 100 implies is_wire_broken, workpiece_position >=
\* target_position implies is_target_distance_reached, the step's terminated
\* flag is true exactly when one of the two conditions holds, and when
\* neither holds the check sets no flag and returns false.
TerminationFlagsFollowPositions ==
    (ret.op = "step" /\ ret # BrokenReturn) =>
        /\ state.wire_position > state.workpiece_position + 100
              => state.is_wire_broken
        /\ state.workpiece_position >= state.target_position
              => state.is_target_distance_reached
        /\ ret.terminated <=>
              \/ state.wire_position > state.workpiece_position + 100
              \/ state.workpiece_position >= state.target_position
        /\ ret.info.wire_broken = state.is_wire_broken
        /\ ret.info.target_reached = state.is_target_distance_reached
        /\ (/\ state.wire_position <= state.workpiece_position + 100
            /\ state.workpiece_position < state.target_position)
              => CheckTermination(state) = [state |-> state, terminated |-> FALSE]

\* a completed step found the workpiece front exactly at the target
TargetReachedOnStep ==
    /\ ret.op = "step"
    /\ ret # BrokenReturn
    /\ ret.terminated
    /\ state.is_target_distance_reached
    /\ ~state.is_wire_broken
    /\ state.workpiece_position = state.target_position

---------------------------------------------------------------------------
(* Properties of the short-circuit detection                               *)

\* gaps below the hard-short threshold and debris densities in [0, 1]
HardShortGaps == {-30, -1, 0, hard_short_gap - 1}
DensityLevels == {0, base_critical_density, Q \div 2, Q}

\* the world w with the wire at distance gap from the workpiece front, debris
\* density debris_density and the random source at rng
WithGapAndDensity(w, gap, debris_density, rng) ==
    [w EXCEPT !.state.wire_position = w.state.workpiece_position - gap,
              !.state.debris_density = debris_density,
              !.np_random = rng]

\* C12: for every gap below the hard-short threshold (negative gaps
\* included) and every debris density in [0, 1], the short-circuit
\* probability is exactly 1, and is_short_circuit is true after the ignition
\* update whatever the random draws and whatever the countdown values.
HardShortIsCertain ==
    /\ \A gap \in HardShortGaps, debris_density \in DensityLevels :
          /\ GetDebrisShortProbability(gap, debris_density) = <<1, 1>>
          /\ \A rng \in Seeds :
                IgnitionUpdate(WithGapAndDensity(World, gap, debris_density, rng))
                    .state.is_short_circuit
    /\ state.workpiece_position - state.wire_position < hard_short_gap =>
          \A action \in Actions :
              IgnitionUpdate(ControlTick(World, action)).state.is_short_circuit

\* a step of an episode has run its ignition update with the wire past the
\* workpiece front (the gap before the mechanics update of that step was
\* negative), debris in the gap and no countdown running: the short was
\* rolled and latched
HardShortLatched ==
    /\ calls.episode > 0
    /\ calls.resets > 0
    /\ ret.op = "step"
    /\ ret # BrokenReturn
    /\ state.is_short_circuit
    /\ state.workpiece_position - (state.wire_position - state.wire_velocity * dt) < 0
    /\ state.debris_density > 0
    /\ ignition.debris_short_remaining = debris_short_duration

\* the ignition update from world before: detected is the world after steps
\* 1 and 2 (short-circuit detection, forced voltage), after the world after
\* the state machine.  With a short circuit detected, no spark starts, the
\* state machine draws nothing from the random source and evaluates no
\* ignition probability, and an idle discharge becomes a short pulse.
IgnitionSuppressed(before, detected, after) ==
    detected.state.is_short_circuit =>
        /\ after.state.is_short_circuit
        /\ after.state.spark_status[1] = 1 => before.state.spark_status[1] = 1
        /\ after.np_random = detected.np_random
        /\ after.ignition.lambda_cache = detected.ignition.lambda_cache
        /\ before.state.spark_status[1] = 0 =>
              /\ after.state.spark_status = <<-1, None, 0>>
              /\ after.state.current =
                    Some(currents_data(ResolveMode(detected.state.current_mode)))
              /\ after.state.voltage = Some(0)

\* C13: on every tick in which is_short_circuit is true the transition
\* idle->spark never happens and no ignition trial is drawn; an idle
\* discharge state evaluated while is_short_circuit is true becomes
\* short-pulse (-1) with status duration 0, current equal to the peak current
\* of the active current mode and voltage 0, in that same tick.
ShortCircuitSuppressesIgnition ==
    \A action \in Actions :
        /\ IgnitionSuppressed(
              ControlTick(World, action),
              ForceVoltage(UpdateShortCircuitDetection(ControlTick(World, action))),
              IgnitionUpdate(ControlTick(World, action)))
        /\ IgnitionSuppressed(
              ControlTick(World, action),
              ForceVoltage(UpdateShortCircuitDetection(ControlTick(World, action))),
              StepResult(World, control_mode, action).world)

\* an idle discharge met a short circuit with the current mode I19 of an
\* action in force: short pulse at that mode's peak current
ShortPulseFromIdle ==
    /\ state.is_short_circuit
    /\ state.spark_status = <<-1, None, 0>>
    /\ state.current_mode = Some(ModeName(19))
    /\ state.current = Some(currents_data(ModeName(19)))
    /\ state.voltage = Some(0)

\* gaps and debris densities a latched short circuit may meet: wide and
\* clean (no new short can start on a high draw), or closed and full
LatchGaps == {0, random_short_max_gap}
LatchDensities == {0, Q}

\* from world w the flag is true after each of the next n ignition updates,
\* whatever gap and debris density each of them meets, and none of them
\* draws from the random source
RECURSIVE StaysShort(_, _)
RECURSIVE StillShort(_, _, _)
StaysShort(w, n) ==
    \/ n = 0
    \/ \A gap \in LatchGaps, debris_density \in LatchDensities :
          StillShort(
              IgnitionUpdate(WithGapAndDensity(w, gap, debris_density, w.np_random)),
              w.np_random, n)
StillShort(after, rng, n) ==
    /\ after.state.is_short_circuit
    /\ after.np_random = rng
    /\ StaysShort(after, n - 1)

\* one ignition update from world before to world after
Latching(before, after) ==
    /\ (before.ignition.random_short_remaining > 0
            \/ before.ignition.debris_short_remaining > 0) =>
          /\ after.state.is_short_circuit
          /\ after.np_random = before.np_random
    /\ (before.ignition.random_short_remaining = 0
            /\ before.ignition.debris_short_remaining = 0) =>
          /\ after.ignition.debris_short_remaining > 0 <=>
                RandomBelow(Draw(before.np_random),
                            GetDebrisShortProbability(ClampedGap(before.state),
                                                      before.state.debris_density))
          /\ after.ignition.random_short_remaining > 0 <=>
                /\ after.ignition.debris_short_remaining = 0
                /\ RandomBelow(Draw(Advance(before.np_random)),
                               RandomShortProbability(ClampedGap(before.state)))
          /\ after.ignition.debris_short_remaining > 0 =>
                /\ after.state.is_short_circuit
                /\ StaysShort(after, debris_short_duration)
          /\ after.ignition.random_short_remaining > 0 =>
                /\ after.state.is_short_circuit
                /\ StaysShort(after, random_short_duration)

\* C14: when a debris-driven (resp. random) short trial succeeds on tick t,
\* is_short_circuit is true on tick t and on each of the next
\* debris_short_duration (resp. random_short_duration) ticks, regardless of
\* how gap and debris density change meanwhile; while either countdown is
\* nonzero no short trial is drawn from the random source, and the flag is
\* true whenever either countdown is nonzero at the start of the tick.
ShortCircuitLatches ==
    \A action \in Actions :
        /\ Latching(ControlTick(World, action),
                    IgnitionUpdate(ControlTick(World, action)))
        /\ (ignition.random_short_remaining > 0
                \/ ignition.debris_short_remaining > 0) =>
              /\ StepResult(World, control_mode, action).world.state.is_short_circuit
              /\ StepResult(World, control_mode, action).world.np_random = np_random

\* a random short latched at an open, clean gap is in its second tick
RandomShortHeld ==
    /\ ignition.random_short_remaining = random_short_duration - 1
    /\ state.is_short_circuit
    /\ state.workpiece_position - state.wire_position >= hard_short_gap
    /\ state.debris_density = 0
    /\ ret.op = "step"

---------------------------------------------------------------------------
(* Properties of the dielectric                                            *)

\* gaps [um] and crater volumes [1e-7 mm^3] a dielectric update may meet
OpenGaps == {reference_gap - 1, reference_gap, 2 * reference_gap}
ClosedGaps == {-30, 0, 1}
CraterVolumes == {0, 1, base_crater_volume, 100 * base_crater_volume}

\* the world w at the start of a spark at distance gap that eroded the
\* volume crater_volume
WithFreshSpark(w, gap, crater_volume) ==
    [w EXCEPT !.state.wire_position = w.state.workpiece_position - gap,
              !.state.last_crater_volume = crater_volume,
              !.state.spark_status = <<1, Some(0), 0>>]

\* debris density and flow condition of world w within [0, 1], debris volume
\* nonnegative, in the module and as published in the state
DebrisWithinRange(w) ==
    /\ w.dielectric.debris_density >= 0
    /\ w.dielectric.debris_density <= Q
    /\ w.dielectric.flow_condition >= 0
    /\ w.dielectric.flow_condition <= Q
    /\ w.dielectric.debris_volume >= 0
    /\ w.state.debris_density >= 0
    /\ w.state.debris_density <= Q
    /\ w.state.flow_rate >= 0
    /\ w.state.flow_rate <= Q
    /\ w.state.debris_volume >= 0

\* C15: after any sequence of dielectric updates, for any gap (positive,
\* zero or negative) and any nonnegative crater-volume inputs, debris
\* density and flow condition are both within [0, 1] and the accumulated
\* debris volume is nonnegative.
DebrisAndFlowWithinUnitInterval ==
    /\ DebrisWithinRange(World)
    /\ \A gap \in OpenGaps, crater_volume \in CraterVolumes :
          DebrisWithinRange(
              DielectricUpdate(WithFreshSpark(World, gap, crater_volume)))
    /\ \A gap \in OpenGaps \cup ClosedGaps, crater_volume \in CraterVolumes :
          /\ DebrisWithinRange(
                DielectricUpdate(WithFreshSpark(World, gap, crater_volume)))
          /\ DebrisWithinRange(
                DielectricUpdate(WithFreshSpark(
                    DielectricUpdate(WithFreshSpark(World, gap, crater_volume)),
                    0, crater_volume)))

\* the debris of a spark fills a gap that has closed since: the density is
\* held at 1 by the clamp
DebrisFillsClosedGap ==
    /\ ret.op = "step"
    /\ dielectric.debris_volume > dielectric.cavity_volume
    /\ dielectric.debris_density = Q
    /\ state.debris_density = Q
    /\ state.workpiece_position - state.wire_position < 0

---------------------------------------------------------------------------
(* Properties of the mechanics                                             *)

\* the targets a mechanics update may be given
TargetDeltas == {-3, -1, 0, 1, 3}

\* one mechanics update from world before to world after keeps the limits
WithinMechanicsLimits(before, after) ==
    /\ Abs(after.mechanics.prev_accel - before.mechanics.prev_accel) <= max_jerk_dt
    /\ Abs(after.mechanics.prev_accel) <= max_acceleration
    /\ Abs(after.state.wire_velocity) <= max_speed

\* C16: after any sequence of mechanics updates in either control mode, for
\* any sequence of target_delta values and starting from zero velocity and
\* zero previous acceleration, at every tick the applied acceleration a
\* satisfies |a(t) - a(t-1)| <= max_jerk * dt and |a(t)| <= max_acceleration,
\* and the wire velocity satisfies |v(t)| <= max_speed.
MechanicsKeepsLimits ==
    /\ Abs(mechanics.prev_accel) <= max_acceleration
    /\ Abs(state.wire_velocity) <= max_speed
    /\ \A target_delta \in TargetDeltas, mode \in ControlModes :
          WithinMechanicsLimits(
              World,
              MechanicsUpdate([World EXCEPT !.state.target_delta = target_delta],
                              mode))
    /\ \A action \in Actions :
          WithinMechanicsLimits(World, StepResult(World, control_mode, action).world)

\* the axis runs at the speed limit, under an acceleration that the jerk
\* limit let it reach only in two ticks
AxisAtItsLimits ==
    /\ ret.op = "step"
    /\ Abs(mechanics.prev_accel) > max_jerk_dt
    /\ Abs(state.wire_velocity) = max_speed

---------------------------------------------------------------------------
(* Properties of the ignition probability                                  *)

\* the state machine of the ignition update, from the world detected that
\* the short-circuit detection left to the world after: get_lambda is
\* evaluated on an idle discharge without a short circuit only, where it
\* does not raise
LambdaEvaluatedWhenOpen(detected, after) ==
    IF detected.state.spark_status[1] = 0 /\ ~detected.state.is_short_circuit
    THEN /\ ~GetLambda(detected.state, detected.ignition).raised
         /\ ~IsNone(GetLambda(detected.state, detected.ignition).value)
         /\ after.ignition.lambda_cache
               = GetLambda(detected.state, detected.ignition).lambda_cache
    ELSE after.ignition.lambda_cache = detected.ignition.lambda_cache

\* C20: evaluating the ignition probability (get_lambda) while
\* is_short_circuit is true fails immediately with an error and returns no
\* value, leaving the process state and the module's lambda cache unchanged;
\* inside a step the ignition module only evaluates it when is_short_circuit
\* is false, so no sequence of step calls can raise this error.
LambdaFailsFastDuringShort ==
    /\ state.is_short_circuit =>
          GetLambda(state, ignition)
              = [raised |-> TRUE, value |-> None,
                 lambda_cache |-> ignition.lambda_cache]
    /\ \A action \in Actions :
          LambdaEvaluatedWhenOpen(
              ForceVoltage(UpdateShortCircuitDetection(ControlTick(World, action))),
              IgnitionUpdate(ControlTick(World, action)))

\* a short circuit holds an idle discharge whose module has cached the
\* ignition probability of an earlier tick
ShortCircuitAfterLambda ==
    /\ state.is_short_circuit
    /\ state.spark_status[1] = 0
    /\ ignition.lambda_cache # << >>
    /\ GetLambda(state, ignition).raised

---------------------------------------------------------------------------
(* Properties of the configuration                                         *)

\* C17: for every EnvironmentConfig c, from_dict(c.to_dict()) has the same
\* value as c in every field; from_dict ignores keys that are not
\* configuration fields and uses the default for every field that is absent.
ConfigRoundTrip ==
    /\ DOMAIN to_dict(config) = ConfigFields
    /\ from_dict(to_dict(config)) = config
    /\ \A dropped \in DroppedKeys, extra \in ExtraKeys :
          from_dict(EditedDict(to_dict(config), dropped, extra))
              = [f \in ConfigFields |->
                    IF f \in dropped THEN EnvironmentConfigDefaults[f]
                    ELSE config[f]]
    /\ ret.op = "from_dict" =>
          /\ DOMAIN ret.value = ConfigFields
          /\ \A f \in ConfigFields :
                ret.value[f] = IF f \in DOMAIN ret.config_dict
                               THEN ret.config_dict[f]
                               ELSE EnvironmentConfigDefaults[f]

\* a configuration that differs from the defaults was exported, two keys
\* that are no fields were added, and the import gave the configuration back
ConfigReimported ==
    /\ ret.op = "from_dict"
    /\ "gap" \in DOMAIN ret.config_dict
    /\ ret.value = config
    /\ \A f \in ConfigFields \ {"wire_material"} :
          config[f] # EnvironmentConfigDefaults[f]

\* the condition of the configuration c under which the constructor must
\* refuse it
NotStrictlyPositive(c) ==
    \/ c.workpiece_height <= 0
    \/ c.wire_diameter <= 0
    \/ c.initial_gap <= 0
    \/ c.target_cutting_distance <= 0
    \/ c.dt <= 0
    \/ c.servo_interval <= 0
    \/ c.max_wire_temperature <= room_temperature

\* C18: constructing the environment with a configuration in which
\* workpiece_height, wire_diameter, initial_gap, target_cutting_distance, dt
\* or servo_interval is not strictly positive, or max_wire_temperature is at
\* or below 293.15 K, raises an error and yields no environment; no invalid
\* value is clamped or replaced by a default, and a configuration that passes
\* is used unchanged.
InvalidConfigurationRejected ==
    /\ \A mode \in ControlModes :
          IF NotStrictlyPositive(config)
          THEN WireEDMEnvInit(mode, Some(config)) = Raise("ValueError")
          ELSE \/ WireEDMEnvInit(mode, Some(config)) = Raise("ValueError")
               \/ /\ IsNone(WireEDMEnvInit(mode, Some(config)).raised)
                  /\ Val(WireEDMEnvInit(mode, Some(config)).env).config = config
    /\ ret.op = "init" => ~NotStrictlyPositive(config)
    /\ ret.op = "raise" => ret.error = "ValueError" /\ np_random = None

\* the constructor has refused a configuration whose only fault is a wire
\* temperature limit of exactly 293.15 K
RoomTemperatureLimitRefused ==
    /\ ret.op = "raise"
    /\ control_mode \in ControlModes
    /\ config = [configured EXCEPT !.max_wire_temperature = room_temperature]

\* C19: constructing the environment with a mechanics control mode other
\* than 'position' or 'velocity', or with a wire material name absent from
\* the material table, raises ValueError (no fallback to another mode or
\* material); with 'position' or 'velocity' construction succeeds and the
\* environment reports exactly the mode it was given.
UnknownModeOrMaterialRejected ==
    /\ \A mode \in ModeArguments, cfg \in {None, Some(config)} :
          IF mode \notin ControlModes
                \/ ConfigOrDefault(cfg).wire_material \notin wire_materials
          THEN WireEDMEnvInit(mode, cfg) = Raise("ValueError")
          ELSE IF NotStrictlyPositive(ConfigOrDefault(cfg))
          THEN TRUE
          ELSE /\ IsNone(WireEDMEnvInit(mode, cfg).raised)
               /\ Val(WireEDMEnvInit(mode, cfg).env).mechanics_control_mode = mode
               /\ Val(WireEDMEnvInit(mode, cfg).env).config.wire_material
                     = ConfigOrDefault(cfg).wire_material
    /\ ret.op = "init" =>
          control_mode \in ControlModes /\ config.wire_material \in wire_materials

\* the constructor has refused a valid configuration, asked for in a valid
\* control mode, whose wire material is not in the table
UnknownMaterialRefused ==
    /\ ret.op = "raise"
    /\ ret.error = "ValueError"
    /\ control_mode \in ControlModes
    /\ config = [configured EXCEPT !.wire_material = "steel"]

---------------------------------------------------------------------------
(* Properties of the ignition probability as a function of the gap         *)

\* the gaps [um] the ignition probability is compared at, from the
\* hard-short threshold up
LambdaGaps == hard_short_gap .. 12

\* the least gap of LambdaGaps at or above the vertex -b / (2a) of the
\* denominator, from where on the denominator grows with the gap
LambdaVertexGap ==
    CHOOSE g \in LambdaGaps :
        /\ 2 * ignition_a_coeff * g + ignition_b_coeff >= 0
        /\ \A h \in LambdaGaps :
              h < g => 2 * ignition_a_coeff * h + ignition_b_coeff < 0

\* the state st with the wire at distance gap from the workpiece front and no
\* short circuit
AtOpenGap(st, gap) ==
    [st EXCEPT !.wire_position = st.workpiece_position - gap,
               !.is_short_circuit = FALSE]

\* what get_lambda returns at distance gap, through the module's cache
LambdaAt(gap) == Val(GetLambda(AtOpenGap(state, gap), ignition).value)

\* p >= q for two probabilities <<num, den>> with positive denominators
AtLeast(p, q) ==
    IF p[1] = q[1] /\ p[1] > 0 THEN p[2] <= q[2]
    ELSE p[1] * q[2] >= q[1] * p[2]

\* get_lambda returns a strictly positive, finite value at distance gap
PositiveAndFinite(gap) ==
    /\ ~GetLambda(AtOpenGap(state, gap), ignition).raised
    /\ LambdaDenominator(gap) > 0
    /\ LambdaAt(gap)[1] > 0
    /\ LambdaAt(gap)[2] > 0
    /\ LambdaAt(gap) = <<6931, 100 * LambdaDenominator(gap)>>

\* C21 as stated: for all gaps g at or above the hard-short threshold (debris
\* density 0, default coefficients a = 0.48, b = -3.69, c = 14.05) the
\* ignition probability lambda(g) = ln2 / (a*g^2 + b*g + c) is strictly
\* positive and finite, and for any two such gaps g1 < g2,
\* lambda(g1) >= lambda(g2).
LambdaDecreasesFromHardShortGap ==
    /\ \A gap \in LambdaGaps : PositiveAndFinite(gap)
    /\ \A g1 \in LambdaGaps, g2 \in LambdaGaps :
          g1 < g2 => AtLeast(LambdaAt(g1), LambdaAt(g2))

\* C21: for all gaps g at or above the hard-short threshold the ignition
\* probability lambda(g) is strictly positive and finite; for any two gaps
\* g1 < g2 at or above the vertex -b / (2a) = 3.84 um of the denominator,
\* lambda(g1) >= lambda(g2), while between the hard-short threshold and the
\* vertex lambda grows with the gap.
LambdaDecreasesFromVertex ==
    /\ \A gap \in LambdaGaps : PositiveAndFinite(gap)
    /\ \A g1 \in LambdaGaps, g2 \in LambdaGaps :
          /\ (LambdaVertexGap <= g1 /\ g1 < g2)
                => AtLeast(LambdaAt(g1), LambdaAt(g2))
          /\ (g1 < g2 /\ g2 < LambdaVertexGap)
                => ~AtLeast(LambdaAt(g1), LambdaAt(g2))
    /\ \A i \in 1..Len(ignition.lambda_cache) :
          ignition.lambda_cache[i][2] = LambdaValue(ignition.lambda_cache[i][1])

\* the module has evaluated the ignition probability at two gaps beyond the
\* vertex during the steps of a run, the wider gap giving the lower value
LambdaCachedAtTwoGaps ==
    \E i \in 1..Len(ignition.lambda_cache), j \in 1..Len(ignition.lambda_cache) :
        /\ LambdaVertexGap <= ignition.lambda_cache[i][1]
        /\ ignition.lambda_cache[i][1] < ignition.lambda_cache[j][1]
        /\ ignition.lambda_cache[i][2][2] < ignition.lambda_cache[j][2][2]
        /\ ignition.lambda_cache[i][2][1] = ignition.lambda_cache[j][2][1]

---------------------------------------------------------------------------
(* Properties of the module order within a step.  before is the world      *)
(* entering the physics update of a step, after the world the step leaves. *)

\* the ignition update ran once, on the state before: a running discharge
\* counted one tick or ended, a running countdown counted one tick
IgnitionRanOnce(before, after) ==
    /\ before.state.spark_status[1] # 0 =>
          \/ after.state.spark_status[3] = before.state.spark_status[3] + 1
          \/ after.state.spark_status = <<0, None, 0>>
    /\ before.ignition.random_short_remaining > 0 =>
          after.ignition.random_short_remaining
              = before.ignition.random_short_remaining - 1
    /\ (before.ignition.random_short_remaining = 0
            /\ before.ignition.debris_short_remaining > 0) =>
          after.ignition.debris_short_remaining
              = before.ignition.debris_short_remaining - 1

\* the discharge of world after is a spark that started in the tick from
\* world before
SparkStarted(before, after) ==
    /\ before.state.spark_status[1] = 0
    /\ after.state.spark_status[1] = 1
    /\ after.state.spark_status[3] = 0

\* the debris volume x after the removal by a flow of condition
\* flow_condition
AfterRemoval(x, flow_condition) ==
    IF flow_condition > 1 /\ x > 10000
    THEN Max(0, x - (debris_removal_per_us * flow_condition) \div Q)
    ELSE x

\* the material removal ran once, after the ignition update of the tick: a
\* spark that started in this tick eroded one crater with the current of
\* this tick, and nothing else moved the workpiece front
MaterialRanAfterIgnition(before, after) ==
    IF SparkStarted(before, after)
    THEN /\ after.state.workpiece_position
                = before.state.workpiece_position + crater_advance
         /\ after.state.last_crater_volume = CraterVolume(Val(after.state.current))
    ELSE /\ after.state.workpiece_position = before.state.workpiece_position
         /\ after.state.last_crater_volume = before.state.last_crater_volume

\* the dielectric update ran once, after the material removal and before
\* the mechanics: it saw the discharge status and the crater volume written
\* in this tick, and the gap between the front as eroded in this tick and
\* the wire where it was before the mechanics moved it
DielectricRanAfterMaterial(before, after) ==
    /\ after.state.dielectric_temperature = dielectric_temperature
    /\ after.state.cavity_volume
          = (cavity_volume_coeff
                * Max(1, 1000 * (after.state.workpiece_position
                                    - before.state.wire_position))) \div Q
    /\ IF SparkStarted(before, after)
       THEN /\ after.state.last_crater_volume > 0
            /\ after.state.debris_volume
                  = AfterRemoval(before.dielectric.debris_volume
                                    + after.state.last_crater_volume,
                                 after.state.flow_rate)
            /\ after.state.ionized_channel
                  = Some(<<after.state.spark_status[2], ion_channel_duration - 1>>)
       ELSE /\ after.state.debris_volume
                  = AfterRemoval(before.dielectric.debris_volume,
                                 after.state.flow_rate)
            /\ after.state.ionized_channel
                  = UpdateIonChannel(before).dielectric.ion_channel

\* the temperature field the wire update computes from the field T with the
\* discharge, the flow condition and the dielectric temperature that world
\* after holds
ThermalUpdateOf(T, after) ==
    ComputeThermalUpdate(T, CurrentOrZero(after.state) * CurrentOrZero(after.state),
                         PlasmaIdx(after.state), PlasmaHeat(after.state),
                         after.wire.h_eff_zone, dielectric_temperature,
                         Abs(after.state.wire_unwinding_velocity) > 0)

\* the wire update ran once, after the dielectric update (not at all on a
\* wire that was broken): its convection follows the flow condition of this
\* tick and its heat balance used the discharge and the dielectric
\* temperature of this tick
WireRanAfterDielectric(before, after) ==
    IF before.state.is_wire_broken
    THEN /\ after.state.wire_temperature = before.state.wire_temperature
         /\ after.wire = before.wire
    ELSE /\ Abs(after.state.flow_rate - after.wire.last_flow_condition) <= 10
         /\ after.wire.h_eff_zone =
               IF Abs(after.state.flow_rate - before.wire.last_flow_condition) > 10
               THEN UpdateConvectionCoefficients(
                        after.state.wire_unwinding_velocity, after.state.flow_rate)
               ELSE before.wire.h_eff_zone
         /\ after.state.wire_temperature
               = ThermalUpdateOf(EnsureTemperatureField(before).state.wire_temperature,
                                 after)
         /\ after.wire.zone_mean_counter =
               IF before.wire.zone_mean_counter + 1 >= zone_mean_interval THEN 0
               ELSE before.wire.zone_mean_counter + 1

\* the mechanics update ran once, last, and only on a wire the wire update
\* left unbroken
MechanicsRanLast(before, after, broken, mode) ==
    IF broken
    THEN /\ after.state.wire_position = before.state.wire_position
         /\ after.state.wire_velocity = before.state.wire_velocity
         /\ after.mechanics = before.mechanics
    ELSE /\ after.mechanics.prev_accel
               = LimitJerk(before.mechanics.prev_accel,
                           NominalAccel(before.state, mode))
         /\ after.state.wire_velocity
               = Clip(before.state.wire_velocity + after.mechanics.prev_accel * dt,
                      max_speed)
         /\ after.state.wire_position
               = before.state.wire_position + after.state.wire_velocity * dt

\* C22: in every step, control tick or not, the modules are each updated at
\* most once and in the fixed order ignition, material removal, dielectric,
\* wire, mechanics (mechanics only if the wire is not broken); the
\* dielectric update of a tick sees the discharge status and the crater
\* volume written in that tick, and the wire update sees the flow condition
\* and the dielectric temperature written by the dielectric update of that
\* tick.
ModulesRunOnceInOrder ==
    \A action \in Actions :
        /\ IgnitionRanOnce(ControlTick(World, action),
                           StepResult(World, control_mode, action).world)
        /\ MaterialRanAfterIgnition(ControlTick(World, action),
                                    StepResult(World, control_mode, action).world)
        /\ DielectricRanAfterMaterial(ControlTick(World, action),
                                      StepResult(World, control_mode, action).world)
        /\ WireRanAfterDielectric(ControlTick(World, action),
                                  StepResult(World, control_mode, action).world)
        /\ MechanicsRanLast(ControlTick(World, action),
                            StepResult(World, control_mode, action).world,
                            StepResult(World, control_mode, action).ret = BrokenReturn,
                            control_mode)

\* a step that was no control tick ignited a spark: its crater is in the
\* debris volume and its ionized channel has counted this tick, the wire is
\* heated and the axis has moved
SparkSeenByAllModules ==
    /\ ret.op = "step"
    /\ ret # BrokenReturn
    /\ ~ret.info.control_step
    /\ state.spark_status[1] = 1
    /\ state.spark_status[3] = 0
    /\ state.last_crater_volume > 0
    /\ state.debris_volume >= state.last_crater_volume - debris_removal_per_us
    /\ state.ionized_channel
          = Some(<<state.spark_status[2], ion_channel_duration - 1>>)
    /\ state.dielectric_temperature = dielectric_temperature
    /\ state.wire_temperature # FullSpool
    /\ state.wire_velocity # 0

---------------------------------------------------------------------------
(* Properties of the process condition flags                               *)

\* the assignments to the four flags that a step executes, as pairs
\* <<component, flag>>.  _update_short_circuit_detection assigns
\* is_short_circuit on each of its paths
IgnitionFlagWrites == {<<"ignition", "is_short_circuit">>}

\* _check_wire_breaking, reached on a wire that is not broken, assigns
\* is_wire_broken when the maximum temperature is above the breaking
\* temperature; w is the world entering the wire update
WireFlagWrites(w) ==
    IF ~w.state.is_wire_broken /\ WireUpdate(w).state.is_wire_broken
    THEN {<<"wire", "is_wire_broken">>}
    ELSE {}

\* _check_termination on state st
TerminationFlagWrites(st) ==
    IF st.wire_position > st.workpiece_position + 100
    THEN {<<"orchestrator", "is_wire_broken">>}
    ELSE IF st.workpiece_position >= st.target_position
    THEN {<<"orchestrator", "is_target_distance_reached">>}
    ELSE {}

\* step from world w, the world entering the physics update: the material
\* removal, the dielectric and the mechanics assign no flag
StepFlagWrites(w, mode) ==
    IgnitionFlagWrites
        \cup WireFlagWrites(DielectricUpdate(MaterialUpdate(IgnitionUpdate(w))))
        \cup (IF PhysicsAdvance(w).state.is_wire_broken THEN {}
              ELSE TerminationFlagWrites(
                       TimeBookkeeping(MechanicsUpdate(PhysicsAdvance(w), mode).state)))

\* the component that sets each flag, by the flag's description in EDMState:
\* the ignition module detects the short circuit, the wire module the wire
\* temperature beyond the breaking point, the orchestrator the target
\* distance
FlagOwner ==
    [ is_short_circuit |-> "ignition",
      is_wire_broken |-> "wire",
      is_target_distance_reached |-> "orchestrator" ]

\* the flag assignments writes of a step that left the state st: each by the
\* one component of its flag, and is_wire_colliding assigned by some
\* component when the step found the wire run into the workpiece
WrittenByOwners(writes, st, completed) ==
    /\ \A p \in writes : p[2] \in DOMAIN FlagOwner => p[1] = FlagOwner[p[2]]
    /\ (completed /\ st.wire_position > st.workpiece_position + 100) =>
          \E p \in writes : p[2] = "is_wire_colliding"

\* C24: single writer per flag: each of the four flags is_short_circuit,
\* is_wire_broken, is_wire_colliding and is_target_distance_reached is
\* written by exactly one component during a step (no flag is written by two
\* different components, and every flag has a component that sets it).
SingleWriterPerFlag ==
    \A action \in Actions :
        WrittenByOwners(
            StepFlagWrites(ControlTick(World, action), control_mode),
            StepResult(World, control_mode, action).world.state,
            StepResult(World, control_mode, action).ret # BrokenReturn)

---------------------------------------------------------------------------
(* Properties of the end-to-end run (SpecFeed)                             *)

\* the next step of the run does not move the workpiece front back, and
\* moves it forward exactly when a spark starts in it
FrontAdvancesOnSparks(before, after) ==
    /\ after.state.workpiece_position >= before.state.workpiece_position
    /\ after.state.workpiece_position > before.state.workpiece_position
          <=> SparkStarted(before, after)

---------------------------------------------------------------------------
(* Properties of the discharge timing                                      *)

\* the setpoint held in the state, the module default standing in only while
\* no setpoint has been set
SetpointOr(o, default) == IF IsNone(o) THEN default ELSE Val(o)

\* the peak current of the current mode held in x
PeakCurrentOf(x) ==
    GetCurrentFromMode(x.ignition, x.state.current_mode).cached_current_value

\* an ignition update of a discharge in state spark or short-pulse, from x to
\* after, bounded by on_time
DischargeBoundedBy(x, after, on_time) ==
    x.state.spark_status[1] \in {1, -1} =>
        /\ after.state.spark_status[3] = x.state.spark_status[3] + 1
        /\ after.state.spark_status[3] < on_time =>
              /\ after.state.spark_status[1] = x.state.spark_status[1]
              /\ after.state.current = Some(PeakCurrentOf(x))
        /\ after.state.spark_status[3] >= on_time =>
              /\ after.state.spark_status[1] = -2
              /\ after.state.current = Some(0)

\* C25: a discharge in state spark (1) or short-pulse (-1) has its duration
\* incremented by 1 on every ignition update, stays in that state with the
\* peak current while duration < ON-time and moves to rest (-2) with current
\* 0 on the first update where duration >= ON-time, ON-time being the ON_time
\* setpoint held in the state, for every value of the action space (0
\* included).
OnTimeBoundsDischarge ==
    \A action \in Actions :
        DischargeBoundedBy(
            ControlTick(World, action),
            IgnitionUpdate(ControlTick(World, action)),
            SetpointOr(ControlTick(World, action).state.ON_time,
                       default_on_time))

\* the ON time plus the OFF time the module works with in st
PulsePeriod(st) == GetOnTime(st) + GetOffTime(st)

\* an ignition update of a discharge in rest, from x to after
RestCountsToIdle(x, after) ==
    x.state.spark_status[1] = -2 =>
        /\ after.state.current = Some(0)
        /\ x.state.spark_status[3] + 1 >= PulsePeriod(x.state) =>
              after.state.spark_status = <<0, None, 0>>
        /\ x.state.spark_status[3] + 1 < PulsePeriod(x.state) =>
              after.state.spark_status
                  = <<-2, x.state.spark_status[2], x.state.spark_status[3] + 1>>

\* an ignition update of a discharge (spark, short-pulse or rest), from x to
\* after: it goes to idle from rest only, at the end of the pulse period, and
\* draws no ignition trial
NoTrialDuringDischarge(x, after) ==
    x.state.spark_status[1] # 0 =>
        /\ after.state.spark_status[1] # 0 =>
              after.state.spark_status[3] = x.state.spark_status[3] + 1
        /\ after.state.spark_status[1] = 0 =>
              /\ x.state.spark_status[1] = -2
              /\ x.state.spark_status[3] + 1 >= PulsePeriod(x.state)
        /\ after.state.spark_status[1] = 1 => x.state.spark_status[1] = 1
        /\ after.np_random = UpdateShortCircuitDetection(x).np_random
        /\ after.ignition.lambda_cache = x.ignition.lambda_cache

\* an ignition update under unchanged settings, from st to after: a discharge
\* younger than the pulse period is still younger than it, or back in idle
BackInIdleInTime(before, x, after) ==
    (/\ before.spark_status[1] # 0
     /\ before.spark_status[3] < PulsePeriod(before)
     /\ GetOnTime(x.state) = GetOnTime(before)
     /\ GetOffTime(x.state) = GetOffTime(before)) =>
        \/ after.state.spark_status = <<0, None, 0>>
        \/ after.state.spark_status[3] < PulsePeriod(x.state)

---------------------------------------------------------------------------
(* Properties of the idle evaluation                                       *)

\* an ignition update in idle that finds no short circuit, from x to after,
\* working with target_voltage
IdleEvaluatedAt(x, after, target_voltage) ==
    (x.state.spark_status[1] = 0 /\ ~after.state.is_short_circuit) =>
        /\ after.state.spark_status[1] \in {0, 1}
        /\ after.state.spark_status[1] = 0 =>
              /\ after.state.voltage = Some(target_voltage)
              /\ after.state.current = Some(0)
        /\ after.state.spark_status[1] = 1 =>
              /\ after.state.voltage
                    = Some((target_voltage * spark_voltage_factor) \div Q)
              /\ after.state.current = Some(PeakCurrentOf(x))
              /\ ~IsNone(after.state.spark_status[2])
              /\ Val(after.state.spark_status[2]) >= 0
              /\ Val(after.state.spark_status[2]) < workpiece_height
              /\ after.state.spark_status[3] = 0

\* C27: idle evaluation without short circuit: after the update the voltage
\* equals the target_voltage setpoint held in the state if no spark ignites,
\* and target_voltage * spark_voltage_factor with current = peak current and
\* a spark location in [0, workpiece height) if a spark ignites, for every
\* target voltage of the action space (0 included), the module default being
\* used only while no setpoint has been set.
IdleVoltageFollowsSetpoint ==
    \A action \in Actions :
        IdleEvaluatedAt(
            ControlTick(World, action),
            IgnitionUpdate(ControlTick(World, action)),
            SetpointOr(ControlTick(World, action).state.target_voltage,
                       default_target_voltage))

---------------------------------------------------------------------------
(* Properties of the gap used by the probability formulas                  *)

\* the world x with the wire drawn back to the workpiece front: gap 0
AtGapZero(x) == [x EXCEPT !.state.wire_position = x.state.workpiece_position]

\* C28: every probability formula of the ignition module - the ignition
\* probability lambda, the debris-driven short probability and the random
\* short probability - is evaluated on the gap clamped to nonnegative: for a
\* negative raw gap the short-circuit detection rolls as for gap 0, and
\* get_lambda returns the value it returns for gap 0.
ProbabilitiesUseClampedGap ==
    state.workpiece_position - state.wire_position < 0 =>
        /\ UpdateShortCircuitDetection(World).state.is_short_circuit
              = UpdateShortCircuitDetection(AtGapZero(World)).state.is_short_circuit
        /\ UpdateShortCircuitDetection(World).ignition
              = UpdateShortCircuitDetection(AtGapZero(World)).ignition
        /\ UpdateShortCircuitDetection(World).np_random
              = UpdateShortCircuitDetection(AtGapZero(World)).np_random
        /\ GetLambda(state, ignition).raised
              = GetLambda(AtGapZero(World).state, ignition).raised
        /\ GetLambda(state, ignition).value
              = GetLambda(AtGapZero(World).state, ignition).value

---------------------------------------------------------------------------
(* Properties of the peak-current cache                                    *)

\* the current-mode values a caller can hold: null, the names of the table
\* and a name absent from it
ModeValues == {None} \cup {Some(ModeName(n)) : n \in 1..20}

\* the lookup without a cache: the table's current for the mode, the default
\* mode's for a null or unknown mode
UncachedCurrent(current_mode) ==
    IF IsNone(current_mode) THEN currents_data(default_current_mode)
    ELSE IF Val(current_mode) \in CurrentModes
    THEN currents_data(Val(current_mode))
    ELSE currents_data(default_current_mode)

\* C29: the peak-current cache is transparent: whatever current modes the
\* module has seen since its construction, the peak current it returns for
\* a mode (a valid name, null or a name absent from the table) is the
\* table's current for that mode, or the default mode's for a null or
\* unknown mode, as an uncached lookup returns it; so is the current a
\* running discharge delivers.
PeakCurrentCacheTransparent ==
    /\ \A m \in ModeValues :
          /\ GetCurrentFromMode(ignition, m).cached_current_value
                = UncachedCurrent(m)
          /\ GetCurrentFromMode(GetCurrentFromMode(ignition, m), m)
                .cached_current_value = UncachedCurrent(m)
    /\ state.spark_status[1] \in {1, -1} =>
          state.current = Some(UncachedCurrent(state.current_mode))

\* the cache has moved from the default to another mode of the table, and a
\* discharge delivers that mode's current
CacheFollowedModeChange ==
    /\ calls.episode > 0
    /\ state.spark_status[1] \in {1, -1}
    /\ ~IsNone(ignition.cached_current_mode)
    /\ ignition.cached_current_mode # Some(default_current_mode)
    /\ ignition.cached_current_mode = state.current_mode
    /\ state.current = Some(ignition.cached_current_value)
    /\ ignition.cached_current_value # currents_data(default_current_mode)

---------------------------------------------------------------------------
(* Properties of the debris accumulation                                   *)

\* the dielectric update sees a fresh spark in y: status spark, duration 0,
\* a positive crater volume supplied
FreshSparkAt(y) ==
    /\ y.state.spark_status[1] = 1
    /\ y.state.spark_status[3] = 0
    /\ y.state.last_crater_volume > 0

\* the dielectric update of a tick: x enters the tick, y enters the
\* dielectric update, z leaves it
DebrisAddedByFreshSparkOnly(x, y, z) ==
    /\ FreshSparkAt(y) =>
          /\ SparkStarted(x, y)
          /\ AddSparkDebris(y).dielectric.debris_volume
                = y.dielectric.debris_volume + y.state.last_crater_volume
          /\ z.dielectric.debris_volume
                <= y.dielectric.debris_volume + y.state.last_crater_volume
    /\ ~FreshSparkAt(y) =>
          /\ AddSparkDebris(y).dielectric.debris_volume
                = y.dielectric.debris_volume
          /\ z.dielectric.debris_volume <= y.dielectric.debris_volume
    /\ x.state.spark_status[1] # 0 => ~FreshSparkAt(y)
    /\ y.dielectric.debris_volume = x.dielectric.debris_volume
    /\ z.state.debris_volume = z.dielectric.debris_volume

\* C30: debris is added only by fresh sparks: the accumulated debris volume
\* increases only on a tick where, at the dielectric update, the discharge
\* status is spark (1) with duration 0 and the supplied crater volume is
\* positive; it then increases by exactly that crater volume, on the tick
\* the spark starts and on no later tick of the same spark, and never on a
\* short-pulse, rest or idle tick.
DebrisOnlyFromFreshSparks ==
    \A action \in Actions :
        DebrisAddedByFreshSparkOnly(
            ControlTick(World, action),
            MaterialUpdate(IgnitionUpdate(ControlTick(World, action))),
            DielectricUpdate(
                MaterialUpdate(IgnitionUpdate(ControlTick(World, action)))))

\* a spark has just started and its crater is in the accumulated debris
FreshSparkDebrisAdded ==
    /\ calls.episode > 0
    /\ ret.op = "step"
    /\ state.spark_status[1] = 1
    /\ state.spark_status[3] = 0
    /\ state.last_crater_volume > 0
    /\ dielectric.debris_volume >= state.last_crater_volume
    /\ state.debris_volume = dielectric.debris_volume
    /\ state.ionized_channel # None

---------------------------------------------------------------------------
(* Properties of the debris removal                                        *)

\* accumulated debris volumes [1e-7 mm^3] a dielectric update may meet:
\* none, a trace, the removal threshold of 0.001 mm^3, just above it, a
\* crater
DebrisVolumes == {0, 1, 10000, 10001, base_crater_volume}

\* the world w with the accumulated debris volume debris_volume
WithDebris(w, debris_volume) ==
    [w EXCEPT !.dielectric.debris_volume = debris_volume]

\* the crater volume the dielectric update of y adds
FreshCrater(y) == IF FreshSparkAt(y) THEN y.state.last_crater_volume ELSE 0

\* the dielectric update from y to z removes the flow's share of the debris
RemovedByFlow(y, z) ==
    z.dielectric.debris_volume
        = Max(0, y.dielectric.debris_volume + FreshCrater(y)
                    - (debris_removal_per_us * z.dielectric.flow_condition)
                          \div Q)

\* C31: on every dielectric update the debris volume after the update equals
\* max(0, debris volume before the update + any fresh crater volume -
\* removal_efficiency * base_flow_rate * flow_condition * 1e-6), for every
\* debris volume and every flow condition in [0, 1].
DebrisRemovedEveryTick ==
    calls.resets > 0 =>
        /\ \A action \in Actions :
              RemovedByFlow(
                  MaterialUpdate(IgnitionUpdate(ControlTick(World, action))),
                  DielectricUpdate(
                      MaterialUpdate(IgnitionUpdate(ControlTick(World, action)))))
        /\ \A gap \in OpenGaps \cup ClosedGaps, crater_volume \in CraterVolumes,
              debris_volume \in DebrisVolumes :
              RemovedByFlow(
                  WithDebris(WithFreshSpark(World, gap, crater_volume),
                             debris_volume),
                  DielectricUpdate(
                      WithDebris(WithFreshSpark(World, gap, crater_volume),
                                 debris_volume)))

\* the share of the debris the flow of z removes in one update, positive
\* at the resolution of the volumes
FlowShare(z) == (debris_removal_per_us * z.dielectric.flow_condition) \div Q

\* a dielectric update from y to z without a fresh spark, the flow condition
\* strictly positive: positive debris is on its way to 0, the update leaves
\* less of it than it found
DrainsTowardsZero(y, z) ==
    (/\ ~FreshSparkAt(y)
     /\ y.dielectric.debris_volume > 0
     /\ z.dielectric.flow_condition > 0
     /\ FlowShare(z) > 0) =>
        /\ z.dielectric.debris_volume < y.dielectric.debris_volume
        /\ z.dielectric.debris_volume >= 0

\* C32: debris drains: if no further fresh spark occurs and the gap stays at
\* a value that keeps the flow condition strictly positive, then from any
\* positive accumulated debris volume the debris volume reaches 0 after
\* finitely many dielectric updates; the update being a function of the
\* volume and the gap, no such update leaves a positive volume as it found
\* it.
DebrisDrains ==
    calls.resets > 0 =>
        /\ \A action \in Actions :
              DrainsTowardsZero(
                  MaterialUpdate(IgnitionUpdate(ControlTick(World, action))),
                  DielectricUpdate(
                      MaterialUpdate(IgnitionUpdate(ControlTick(World, action)))))
        /\ \A gap \in OpenGaps, debris_volume \in DebrisVolumes :
              DrainsTowardsZero(
                  WithDebris(WithGapAndDensity(World, gap, state.debris_density,
                                               np_random),
                             debris_volume),
                  DielectricUpdate(
                      WithDebris(WithGapAndDensity(World, gap,
                                                   state.debris_density,
                                                   np_random),
                                 debris_volume)))

---------------------------------------------------------------------------
(* Properties of the ionized channel                                       *)

\* the channel (location, remaining) one dielectric update later
CountedDown(location, remaining) ==
    IF remaining > 1 THEN Some(<<location, remaining - 1>>) ELSE None

\* the dielectric update from y to z: a fresh spark sets the channel, every
\* update counts it down by one and clears it when no time is left
ChannelSetAndCounted(y, z) ==
    /\ FreshSparkAt(y) =>
          z.dielectric.ion_channel
              = CountedDown(y.state.spark_status[2], ion_channel_duration)
    /\ (~FreshSparkAt(y) /\ ~IsNone(y.dielectric.ion_channel)) =>
          z.dielectric.ion_channel
              = CountedDown(Val(y.dielectric.ion_channel)[1],
                            Val(y.dielectric.ion_channel)[2])
    /\ (~FreshSparkAt(y) /\ IsNone(y.dielectric.ion_channel)) =>
          IsNone(z.dielectric.ion_channel)
    /\ z.state.ionized_channel = z.dielectric.ion_channel

\* the channel published in st has between 1 and ion_channel_duration - 1
\* microseconds left
ChannelWithinRange(st) ==
    ~IsNone(st.ionized_channel) =>
        /\ Val(st.ionized_channel)[2] >= 1
        /\ Val(st.ionized_channel)[2] <= ion_channel_duration - 1

\* C33: a fresh spark with positive crater volume sets the channel to (spark
\* location, ion_channel_duration), replacing any channel still running; the
\* remaining time then decreases by exactly 1 on every dielectric update,
\* including the update that set it, and the channel becomes null on the
\* update where the remaining time would reach zero; a non-null published
\* channel always has remaining time at least 1 and at most
\* ion_channel_duration - 1.
IonChannelCountsDown ==
    /\ ChannelWithinRange(state)
    /\ ~IsNone(dielectric.ion_channel) =>
          /\ Val(dielectric.ion_channel)[2] >= 1
          /\ Val(dielectric.ion_channel)[2] <= ion_channel_duration - 1
    /\ \A action \in Actions :
          /\ ChannelSetAndCounted(
                MaterialUpdate(IgnitionUpdate(ControlTick(World, action))),
                DielectricUpdate(
                    MaterialUpdate(IgnitionUpdate(ControlTick(World, action)))))
          /\ ChannelWithinRange(StepResult(World, control_mode, action).world.state)
    /\ \A gap \in OpenGaps \cup ClosedGaps, crater_volume \in CraterVolumes :
          ChannelSetAndCounted(
              WithFreshSpark(World, gap, crater_volume),
              DielectricUpdate(WithFreshSpark(World, gap, crater_volume)))

\* a channel that has been counting down is about to be replaced by the
\* channel of a new spark
RunningChannelReplaced ==
    /\ ret.op = "step"
    /\ ~IsNone(dielectric.ion_channel)
    /\ state.ionized_channel = dielectric.ion_channel
    /\ Val(dielectric.ion_channel)[2] < ion_channel_duration - 1
    /\ \E action \in Actions :
          /\ FreshSparkAt(MaterialUpdate(IgnitionUpdate(ControlTick(World, action))))
          /\ StepResult(World, control_mode, action).world.state.ionized_channel
                = Some(<<StepResult(World, control_mode, action)
                             .world.state.spark_status[2],
                         ion_channel_duration - 1>>)

---------------------------------------------------------------------------
(* Properties of the wire breaking threshold                               *)

\* the wire material's melting point times the configured
\* wire_breaking_temp_factor
ConfiguredBreakingThreshold == (melting_point * wire_breaking_temp_factor) \div Q

\* maximum segment temperatures [cK] a wire update may end with: around the
\* critical temperature, around the configured threshold and around the
\* material's breaking temperature
MaxTemperatures ==
    {spool_T, critical_temperature, critical_temperature + 1,
     ConfiguredBreakingThreshold, ConfiguredBreakingThreshold + 1,
     breaking_temperature, breaking_temperature + 1}

\* the temperature field of the wire with its hottest segment at max_temp
HotField(max_temp) ==
    [i \in 1..n_segments |-> IF i = geometry.actual_zone_start + 1
                             THEN max_temp ELSE spool_T]

\* the breaking check of a wire update on an unbroken wire, from state before
\* to state after, the hottest segment at max_temp, judged against threshold
BreaksAbove(before, after, max_temp, threshold) ==
    ~before.is_wire_broken =>
        /\ after.is_wire_broken <=> max_temp > threshold
        /\ (max_temp > critical_temperature /\ max_temp <= threshold) =>
              /\ after.time_in_critical_temp = before.time_in_critical_temp + 1
              /\ ~after.is_wire_broken

\* the wire update of the next tick under action, judged against threshold
NextWireUpdateBreaksAbove(y, z, threshold) ==
    BreaksAbove(y.state, z.state, SeqMax(z.state.wire_temperature), threshold)

\* C34: after a wire update on an unbroken wire, is_wire_broken is set true
\* if and only if the maximum segment temperature exceeds the breaking
\* threshold, the threshold being the wire material's melting point times
\* the configured wire_breaking_temp_factor; exceeding only the lower
\* critical threshold increments the dwell counter and never sets
\* is_wire_broken.
WireBreaksAtConfiguredFactor ==
    calls.resets > 0 =>
        /\ \A action \in Actions :
              NextWireUpdateBreaksAbove(
                  DielectricUpdate(
                      MaterialUpdate(IgnitionUpdate(ControlTick(World, action)))),
                  WireUpdate(DielectricUpdate(
                      MaterialUpdate(IgnitionUpdate(ControlTick(World, action))))),
                  ConfiguredBreakingThreshold)
        /\ \A max_temp \in MaxTemperatures :
              BreaksAbove(state, CheckWireBreaking(state, HotField(max_temp)),
                          max_temp, ConfiguredBreakingThreshold)

---------------------------------------------------------------------------
(* Properties of the wire geometry                                         *)

\* lengths [mm] a wire may be configured with: buffers and contact offsets
\* (zero included) and segment lengths; the workpiece height is the
\* configuration's
BufferLengths == 0..3
ContactOffsets == 0..2
SegmentLengths == 1..2

\* both contacts of geometry g lie outside the workpiece zone and every
\* index is a segment index
IndicesOrdered(g) ==
    /\ 0 <= g.contact_bottom_idx
    /\ g.contact_bottom_idx < g.zone_start
    /\ g.zone_start <= g.zone_end
    /\ g.zone_end <= g.contact_top_idx
    /\ g.contact_top_idx <= g.n_segments - 1

\* C35: for every configuration of buffer lengths (zero included), contact
\* offsets, workpiece height and segment length that yields at least one
\* segment, the indices the constructed wire module derives satisfy
\* 0 <= contact_bottom_idx < zone_start <= zone_end <= contact_top_idx
\* <= n_segments - 1.
GeometryIndicesOrdered ==
    ret.op = "init" =>
        \A bb \in BufferLengths, bt \in BufferLengths, seg \in SegmentLengths,
           cob \in ContactOffsets, cot \in ContactOffsets :
            SegmentCount(bb, bt, config.workpiece_height, seg) >= 1 =>
                IndicesOrdered(WireGeometry(bb, bt, config.workpiece_height,
                                            seg, cob, cot))

---------------------------------------------------------------------------
(* Properties of the position-mode setpoint                                *)

\* the nominal acceleration the mechanics update computes in state st is the
\* position law about the setpoint x_target
TracksSetpoint(st, x_target) ==
    ~st.is_wire_broken =>
        NominalAccel(st, "position")
            = Clip(PositionLaw(st.wire_velocity, st.wire_position - x_target),
                   max_acceleration)

\* C36: in position mode the tracking setpoint x_target is fixed for the
\* whole control interval at (wire position at the tick when the action was
\* applied + target_delta): on the control tick, and on the tick after it,
\* the nominal acceleration is -2*zeta*omega_n*v - omega_n^2*(x - x_target)
\* with that constant x_target.
PositionSetpointHeld ==
    (calls.resets > 0 /\ control_mode = "position" /\ IsCtrlStep(state)
        /\ ~state.is_wire_broken) =>
        \A action \in Actions :
            /\ TracksSetpoint(ControlTick(World, action).state,
                              state.wire_position + action.servo)
            /\ TracksSetpoint(StepResult(World, control_mode, action).world.state,
                              state.wire_position + action.servo)

---------------------------------------------------------------------------
(* Properties of the convection coefficients                               *)

\* flow conditions [1/Q] a wire update may be given, 0 and the refresh
\* tolerance 0.01 included
FlowConditions == {0, 5, 10, 11, 500, Q}

\* the world w with the flow condition flow published in the state
WithFlow(w, flow) == [w EXCEPT !.state.flow_rate = flow]

\* the coefficients h_eff_zone a wire update works with are strictly
\* positive, and inside the workpiece zone they are the base coefficient
\* scaled by the flow condition flow
ConvectionApplied(h_eff_zone, wire_unwind_vel, flow) ==
    \A i \in 1..n_segments :
        /\ h_eff_zone[i] > 0
        /\ h_eff_zone[i] >= base_convection_coefficient \div 10
        /\ (i - 1 >= geometry.actual_zone_start
                /\ i - 1 < geometry.actual_zone_end) =>
              h_eff_zone[i] = HEffEnhanced(HEffBase(wire_unwind_vel), flow)

\* C37: in every wire update, from the first update after construction on
\* and for every flow-condition history (including a flow condition that
\* stays at or below 0.01), the effective convection coefficient used for
\* every segment is strictly positive (at least 0.1 *
\* base_convection_coefficient), and inside the workpiece zone it is the
\* base coefficient scaled by (1 + flow enhancement * flow condition).
ConvectionAlwaysApplied ==
    (calls.resets > 0 /\ ~state.is_wire_broken) =>
        \A flow \in FlowConditions :
            ConvectionApplied(
                RefreshConvection(WithFlow(World, flow)).wire.h_eff_zone,
                state.wire_unwinding_velocity, flow)

---------------------------------------------------------------------------
(* Properties of the thermal relaxation                                    *)

\* the largest |T_i - spool temperature| of the temperature field T
MaxDeviation(T) == SeqMax([i \in 1..Len(T) |-> Abs(T[i] - spool_T)])

\* the wire update of y has no heating term: zero current, no active spark,
\* the dielectric at spool temperature, the wire unbroken
NoHeating(y) ==
    /\ ~y.state.is_wire_broken
    /\ CurrentOrZero(y.state) = 0
    /\ y.state.spark_status[1] # 1
    /\ PlasmaHeat(y.state) = 0
    /\ y.state.dielectric_temperature = spool_T

\* a wire update without heating term, from the field T of y to z: the
\* largest deviation does not grow, segment 0 is at spool temperature, and
\* a field that is not at spool temperature loses heat
Relaxes(y, T, z) ==
    NoHeating(y) =>
        /\ MaxDeviation(z.state.wire_temperature) <= MaxDeviation(T)
        /\ z.state.wire_temperature[1] = spool_T
        /\ \A i \in 1..n_segments : z.state.wire_temperature[i] >= spool_T
        /\ MaxDeviation(ApplyBoundary(T)) > 0 =>
              SeqSum(z.state.wire_temperature, 1, n_segments)
                  < SeqSum(ApplyBoundary(T), 1, n_segments)

\* the world y with the temperature field T
WithField(y, T) == [y EXCEPT !.state.wire_temperature = T]

\* C38: with zero current, no active spark (zero plasma heat) and dielectric
\* temperature equal to spool temperature, each wire update leaves the
\* maximum over segments of |T_i - spool temperature| no larger than before,
\* segment 0 stays at spool temperature, and over repeated updates the
\* temperature field converges toward spool temperature: every update takes
\* heat out of a field that is not at spool temperature.
ThermalRelaxation ==
    \A action \in Actions :
        /\ Relaxes(
              DielectricUpdate(
                  MaterialUpdate(IgnitionUpdate(ControlTick(World, action)))),
              EnsureTemperatureField(DielectricUpdate(
                  MaterialUpdate(IgnitionUpdate(ControlTick(World, action)))))
                  .state.wire_temperature,
              WireUpdate(DielectricUpdate(
                  MaterialUpdate(IgnitionUpdate(ControlTick(World, action))))))
        /\ \A max_temp \in MaxTemperatures :
              Relaxes(
                  WithField(
                      DielectricUpdate(MaterialUpdate(
                          IgnitionUpdate(ControlTick(World, action)))),
                      HotField(max_temp)),
                  HotField(max_temp),
                  WireUpdate(WithField(
                      DielectricUpdate(MaterialUpdate(
                          IgnitionUpdate(ControlTick(World, action)))),
                      HotField(max_temp))))

\* a wire heated by a discharge has gone through an update without heating
\* term and is still above spool temperature
WarmWireRelaxing ==
    /\ ret.op = "step"
    /\ ret # BrokenReturn
    /\ ~state.is_wire_broken
    /\ state.current = Some(0)
    /\ state.spark_status[1] # 1
    /\ state.dielectric_temperature = spool_T
    /\ Len(state.wire_temperature) = n_segments
    /\ MaxDeviation(state.wire_temperature) > 0
    /\ state.wire_temperature[1] = spool_T

---------------------------------------------------------------------------
(* Properties of the short-circuit countdowns                              *)

\* get_short_circuit_status on the ignition module ig
GetShortCircuitStatus(ig) ==
    [ has_random_short |-> ig.random_short_remaining > 0,
      random_short_remaining_us |-> ig.random_short_remaining,
      has_debris_short |-> ig.debris_short_remaining > 0,
      debris_short_remaining_us |-> ig.debris_short_remaining,
      total_short_remaining_us |->
          Max(ig.random_short_remaining, ig.debris_short_remaining) ]

\* at most one countdown of the status s runs, and both are within range
OneCountdownInRange(s) ==
    /\ ~(s.has_random_short /\ s.has_debris_short)
    /\ s.random_short_remaining_us \in 0..random_short_duration
    /\ s.debris_short_remaining_us \in 0..debris_short_duration

\* from the status s to the status t of the next ignition update, a nonzero
\* countdown has lost exactly 1 and the other one has stayed at 0
CountdownStepped(s, t) ==
    /\ s.has_random_short =>
          /\ t.random_short_remaining_us = s.random_short_remaining_us - 1
          /\ t.debris_short_remaining_us = 0
    /\ s.has_debris_short =>
          /\ t.debris_short_remaining_us = s.debris_short_remaining_us - 1
          /\ t.random_short_remaining_us = 0
    /\ s.total_short_remaining_us > 0 =>
          t.total_short_remaining_us = s.total_short_remaining_us - 1

\* C39: at every tick boundary at most one of the two short-circuit
\* countdowns (random-short remaining, debris-short remaining) is nonzero,
\* both are within [0, their configured duration], and each nonzero
\* countdown decreases by exactly 1 per ignition update until it reaches 0.
ShortCountdownsExclusive ==
    /\ OneCountdownInRange(GetShortCircuitStatus(ignition))
    /\ \A action \in Actions :
          CountdownStepped(
              GetShortCircuitStatus(ignition),
              GetShortCircuitStatus(
                  IgnitionUpdate(ControlTick(World, action)).ignition))

\* a random short has counted down to its last tick, no debris short running
RandomShortOnLastTick ==
    /\ ret.op = "step"
    /\ GetShortCircuitStatus(ignition).total_short_remaining_us = 1
    /\ GetShortCircuitStatus(ignition).has_random_short
    /\ ~GetShortCircuitStatus(ignition).has_debris_short
    /\ state.is_short_circuit

---------------------------------------------------------------------------
(* Properties of the spark timers                                          *)

\* the timers of the state st of a completed tick: exactly one of them is
\* zero, and time_since_spark_ignition runs exactly during a discharge,
\* one tick ahead of the duration of the status
SparkTimersAgree(st) ==
    /\ (st.time_since_spark_ignition = 0) # (st.time_since_spark_end = 0)
    /\ st.time_since_spark_ignition # 0 <=> st.spark_status[1] = 1
    /\ st.spark_status[1] = 1 =>
          st.time_since_spark_ignition = (st.spark_status[3] + 1) * dt

\* the step with result r from the state before: a completed tick adds dt
\* to the elapsed time and leaves the timers in agreement, a step cut short
\* by wire break adds nothing
ClockStepped(before, r) ==
    IF r.ret = BrokenReturn
    THEN /\ r.world.state.time = before.time
         /\ r.world.state.time_since_spark_ignition
                = before.time_since_spark_ignition
         /\ r.world.state.time_since_spark_end = before.time_since_spark_end
    ELSE /\ r.world.state.time = before.time + dt
         /\ SparkTimersAgree(r.world.state)

\* C40: after every completed tick exactly one of time_since_spark_ignition
\* and time_since_spark_end is zero; time_since_spark_ignition is nonzero
\* exactly when the discharge state code is 1, where it equals
\* (status duration + 1) * dt; and elapsed time increases by exactly dt on
\* every completed tick and not at all on a step cut short by wire break.
SparkTimersExclusive ==
    /\ (ret.op = "step" /\ ret # BrokenReturn) => SparkTimersAgree(state)
    /\ \A action \in Actions :
          ClockStepped(state, StepResult(World, control_mode, action))

\* a completed tick in the second tick of a discharge
DischargeTimerRunning ==
    /\ ret.op = "step"
    /\ ret # BrokenReturn
    /\ state.spark_status[1] = 1
    /\ state.spark_status[3] >= 1
    /\ state.time_since_spark_ignition = 2 * dt
    /\ state.time_since_spark_end = 0
    /\ state.time >= 2 * dt

=============================================================================
